---- MODULE Spec2Model ----
(***************************************************************************)
(* Model of plotting/Dataset.py: Dataset (a leaf sample), PhysicsProcess   *)
(* (a composite of datasets) and the query pipeline getHistogram /         *)
(* getYield / getValues / getHistogram2D with the HistogramStore cache.    *)
(*                                                                         *)
(* Numbers are exact rationals <<n, d>> in lowest terms with d > 0.  A     *)
(* histogram is the sequence of its bins, ROOT bin b at position b+1:      *)
(* position 1 is the underflow bin, position nBins+2 the overflow bin.  A  *)
(* bin holds its content and the sum of the squared weights filled into    *)
(* it, the square of its error.  The null histogram (Python None) is the   *)
(* empty sequence.                                                         *)
(***************************************************************************)
EXTENDS Integers, Sequences, FiniteSets, TLC

\* ------------------------------------------------------------------ bounds
\* number of regular bins of the plotted variables
NBins == 2
\* luminosities offered to a query: 1..MaxLumi
MaxLumi == 2
\* values a scale factor can be set to: 1..MaxScale
MaxScale == 2

\* -------------------------------------------------------------- rationals
Abs(x) == IF x < 0 THEN -x ELSE x

RECURSIVE GCD(_, _)
GCD(a, b) == IF b = 0 THEN a ELSE GCD(b, a % b)

\* the rational n/d in lowest terms, d # 0
Rat(n, d) ==
    LET g == GCD(Abs(n), Abs(d))
        s == IF d < 0 THEN -1 ELSE 1
    IN  IF n = 0 THEN <<0, 1>> ELSE <<s * (n \div g), s * (d \div g)>>

RInt(n) == <<n, 1>>
RZero == <<0, 1>>
ROne == <<1, 1>>
RMul(p, q) == Rat(p[1] * q[1], p[2] * q[2])
RAdd(p, q) == Rat(p[1] * q[2] + q[1] * p[2], p[2] * q[2])
\* 1 / p, p # 0
RInv(p) == Rat(p[2], p[1])

\* ------------------------------------------------------------- histograms
NoHist == <<>>

\* a bin: its content and the sum of the squares of the weights filled into
\* it (TH1::Sumw2), the square of the error of the bin
Bin(content, sumw2) == [content |-> content, sumw2 |-> sumw2]
EmptyBin == Bin(RZero, RZero)

\* TH1::Scale: the errors are scaled with the contents
HistScale(h, f) ==
    [i \in 1..Len(h) |-> Bin(RMul(h[i].content, f), RMul(h[i].sumw2, RMul(f, f)))]

\* the sum of two bins: the errors are added in quadrature
BinAdd(a, b) == Bin(RAdd(a.content, b.content), RAdd(a.sumw2, b.sumw2))

\* TH1::Add
HistAdd(h, g) == [i \in 1..Len(h) |-> BinAdd(h[i], g[i])]

RECURSIVE SumTo(_, _)
SumTo(h, n) == IF n = 0 THEN RZero ELSE RAdd(SumTo(h, n - 1), h[n])

\* the sum of the numbers at positions lo+1..hi+1, clamped to the sequence
IntegralOf(numbers, lo, hi) ==
    LET top == IF hi + 1 > Len(numbers) THEN Len(numbers) ELSE hi + 1
        part == [i \in 1..top |-> IF i >= lo + 1 THEN numbers[i] ELSE RZero]
    IN  SumTo(part, top)

\* TH1::Integral( lo, hi ) over ROOT bins lo..hi, clamped to the histogram
HistIntegral(h, lo, hi) == IntegralOf([i \in 1..Len(h) |-> h[i].content], lo, hi)

\* the square of the error TH1::IntegralAndError( lo, hi, error ) gives
HistIntegralError2(h, lo, hi) == IntegralOf([i \in 1..Len(h) |-> h[i].sumw2], lo, hi)

\* ------------------------------------------------------------ input data
\* Variable objects: "x" and "y" are plotted with NBins bins, "yield" is
\* var_Yield, the one-bin integral proxy every row falls into.
Variables == {"x", "y", "yield"}
VarBins(xVar) == IF xVar = "yield" THEN 1 ELSE NBins

\* atomic selection expressions a Cut is a conjunction of
Atoms == {"a", "b"}
\* per-row weight branches a weight expression is a product of
WeightNames == {"w", "w2", "sysUp"}

NoTree == "none"
NominalTree == "NOMINAL"
ShapeTree == "SHAPE_UP"

Row(x, y, sel, w, w2, sysUp) ==
    [x |-> x, y |-> y, sel |-> sel, w |-> [n \in WeightNames |->
        IF n = "w" THEN w ELSE IF n = "w2" THEN w2 ELSE sysUp]]

\* names of the leaf datasets and of the physics processes
Leaves == {"s1", "s2", "s3", "d1"}
Processes == {"P0", "P1", "P2", "P3", "F1", "F2"}

\* file names: a name with a wildcard is a pattern, matched against the
\* directory; "s3*" and "missing*" match no file.  Every plain name of the
\* inputs is the name of a file; "f2" and "f3" hold no tree rows and no
\* metadata histogram.
Patterns == {"s3*", "missing*"}
EmptyFiles == {"f2", "f3"}

\* findAllFilesInPath( pattern ): a name without a wildcard is returned as it
\* is (line 54), a pattern is resolved to the files it matches, and the
\* empty name gives no file (lines 53-56)
findAllFilesInPath(pattern) ==
    IF pattern \in Patterns \/ pattern = "" THEN <<>> ELSE << pattern >>

\* the files found for a list of file names, in order
RECURSIVE FilesOf(_)
FilesOf(fileNames) ==
    IF fileNames = <<>> THEN <<>>
    ELSE findAllFilesInPath(Head(fileNames)) \o FilesOf(Tail(fileNames))

\* the rows of tree treeName in the file named s (the file of dataset s)
TreeRows(s, treeName) ==
    IF s \in EmptyFiles THEN <<>>
    ELSE IF treeName = ShapeTree
    THEN IF s = "s1" THEN << Row(2, 1, {"a", "b"}, 2, 1, 3), Row(2, 2, {"a"}, 1, 3, 1),
                             Row(1, 1, {"b"}, 3, 1, 2) >>
         ELSE IF s = "s2" THEN << Row(1, 2, {"a"}, 1, 2, 1), Row(3, 1, {"a", "b"}, 2, 2, 2) >>
         ELSE << Row(1, 1, {"a"}, 1, 2, 3) >>
    ELSE IF s = "s1" THEN << Row(1, 1, {"a", "b"}, 2, 1, 3), Row(2, 1, {"a"}, 1, 3, 1),
                             Row(3, 2, {"b"}, 1, 2, 2), Row(0, 2, {"a", "b"}, 3, 1, 1) >>
         ELSE IF s = "s2" THEN << Row(1, 2, {"a"}, 1, 2, 1), Row(1, 1, {"b"}, 2, 1, 3),
                                  Row(2, 1, {"a", "b"}, 4, 1, 2) >>
         ELSE << Row(1, 1, {"a", "b"}, 1, 2, 3), Row(2, 2, {"a"}, 1, 3, 2),
                 Row(2, 1, {"a", "b"}, 1, 2, 2), Row(4, 1, {"b"}, 1, 1, 5) >>

\* the rows of tree treeName in a chain of the files, in order
RECURSIVE ChainRows(_, _)
ChainRows(files, treeName) ==
    IF files = <<>> THEN <<>>
    ELSE TreeRows(Head(files), treeName) \o ChainRows(Tail(files), treeName)

\* bin 8 of the metadata histogram of the file named s
MetaSumOfWeights(s) ==
    IF s \in EmptyFiles THEN 0 ELSE IF s = "s1" THEN 4 ELSE IF s = "s2" THEN 2 ELSE 5

\* getDatasetHistogramBinContent: the bin summed over the files
RECURSIVE BinContentOf(_)
BinContentOf(files) ==
    IF files = <<>> THEN 0 ELSE MetaSumOfWeights(Head(files)) + BinContentOf(Tail(files))

\* ----------------------------------------------------------- Cut algebra
\* A Cut is the set of its conjuncts; Cut() is the empty conjunction.
EmptyCut == {}
\* Cut.__add__: the conjunction of both cuts
CutAnd(a, b) == a \cup b
\* Cut.withoutCut: removes a conjunct that was added before, else unchanged
CutWithout(a, sub) == IF sub # {} /\ sub \subseteq a THEN a \ sub ELSE a

\* a weight expression is the sequence of the branches it multiplies
NoWeight == <<>>
\* weightExpression * other
WeightTimes(w, v) == w \o v

RECURSIVE WeightOf(_, _)
\* the value of weight expression w on row r
WeightOf(r, w) == IF w = <<>> THEN 1 ELSE r.w[Head(w)] * WeightOf(r, Tail(w))

\* ----------------------------------------------------------- systematics
\* Systematics objects and their variations.  "shapeSys" reads another tree,
\* "weightSys" multiplies a per-row weight, "scaleSys" scales the result.
Systematics == {"shapeSys", "weightSys", "scaleSys"}
Variations == {"nominal", "shapeUp", "weightUp", "scaleUp"}
NoVariation == "none"
NoSystematics == "none"

\* SystematicVariation.systematics: the owning Systematics
VarSystematics(v) ==
    IF v = "shapeUp" THEN "shapeSys"
    ELSE IF v = "weightUp" THEN "weightSys"
    ELSE IF v = "scaleUp" THEN "scaleSys"
    ELSE NoSystematics

\* SystematicVariation.isShapeSystematics
IsShapeSystematics(v) == v = "shapeUp"

\* SystematicVariation.treeName; the nominal variation names the dataset's tree
VarTreeName(v) ==
    IF v = "shapeUp" THEN ShapeTree ELSE IF v = "nominal" THEN NominalTree ELSE NoTree

\* the weight expression and the scale of one variation
VarWeight(v) == IF v = "weightUp" THEN <<"sysUp">> ELSE NoWeight
VarScale(v) == IF v = "scaleUp" THEN RInt(3) ELSE ROne

\* the order in which a SystematicsSet is folded
SystematicsOrder == <<"shapeSys", "weightSys", "scaleSys">>

\* the variation systematics m contributes when variation v is evaluated
MemberVariation(m, v) == IF VarSystematics(v) = m THEN v ELSE "nominal"

RECURSIVE TotalWeightFrom(_, _, _)
TotalWeightFrom(i, set, v) ==
    IF i > Len(SystematicsOrder) THEN NoWeight
    ELSE LET m == SystematicsOrder[i]
         IN  (IF m \in set THEN VarWeight(MemberVariation(m, v)) ELSE NoWeight)
             \o TotalWeightFrom(i + 1, set, v)

\* SystematicsSet.totalWeight( variation, cut )
totalWeight(set, v, cut) == TotalWeightFrom(1, set, v)

RECURSIVE TotalScaleFrom(_, _, _)
TotalScaleFrom(i, set, v) ==
    IF i > Len(SystematicsOrder) THEN ROne
    ELSE LET m == SystematicsOrder[i]
         IN  RMul(IF m \in set THEN VarScale(MemberVariation(m, v)) ELSE ROne,
                  TotalScaleFrom(i + 1, set, v))

\* SystematicsSet.totalScaleFactor( variation, cut )
totalScaleFactor(set, v, cut) == TotalScaleFrom(1, set, v)

\* ------------------------------------------------------------ scan engine
\* the bin a value falls into: 0 is underflow, nb+1 overflow
BinOf(val, nb) == IF val < 1 THEN 0 ELSE IF val > nb THEN nb + 1 ELSE val

\* the value of variable xVar on row r
ValueOf(r, xVar) == IF xVar = "yield" THEN 1 ELSE IF xVar = "y" THEN r.y ELSE r.x

\* a tree object: its name, the rows of its files and the entry list set on it
\* (the conjuncts of the selection the TEntryList was drawn with; {} is none);
\* id tells the TChain objects apart that the openTrees dictionaries hold: two
\* entries with the same id are the same object
Tree(name, rows, entryList) ==
    [id |-> 0, name |-> name, rows |-> rows, entryList |-> entryList]

\* the ids of the trees the dictionaries op hold
TreeIds(op) == UNION { { op[m][t].id : t \in DOMAIN op[m] } : m \in DOMAIN op }

\* TChain( treeName ): the id of a new object, the least one not in use
NewTreeId(op) ==
    CHOOSE i \in 1..(Cardinality(TreeIds(op)) + 1) :
        i \notin TreeIds(op) /\ \A j \in 1..(i - 1) : j \in TreeIds(op)

\* the row is in the entry list of the tree and passes the cut
Selected(tree, r, cut) == tree.entryList \subseteq r.sel /\ cut \subseteq r.sel

RECURSIVE FillFrom(_, _, _, _, _, _)
\* the sum of the weights and the sum of the squared weights of ROOT bin b
\* after filling rows i.. of the tree
FillFrom(i, tree, xVar, cut, w, b) ==
    IF i > Len(tree.rows) THEN << 0, 0 >>
    ELSE LET r == tree.rows[i]
             weight == IF Selected(tree, r, cut) /\ BinOf(ValueOf(r, xVar), VarBins(xVar)) = b
                       THEN WeightOf(r, w) ELSE 0
             rest == FillFrom(i + 1, tree, xVar, cut, w, b)
         IN  << weight + rest[1], weight * weight + rest[2] >>

\* Variable.createHistogramFromTree( tree, title, cut, weightExpression, ... )
createHistogramFromTree(tree, xVar, cut, w) ==
    [i \in 1..(VarBins(xVar) + 2) |->
        LET filled == FillFrom(1, tree, xVar, cut, w, i - 1)
        IN  Bin(RInt(filled[1]), RInt(filled[2]))]

\* the number of rows of the tree that pass the entry list and the cut
RECURSIVE CountFrom(_, _, _)
CountFrom(i, tree, cut) ==
    IF i > Len(tree.rows) THEN 0
    ELSE (IF Selected(tree, tree.rows[i], cut) THEN 1 ELSE 0) + CountFrom(i + 1, tree, cut)

\* Tools.overflowIntoLastBins: underflow into the first and overflow into the
\* last regular bin
overflowIntoLastBins(h) ==
    LET n == Len(h)
    IN  IF n = 3 THEN << EmptyBin, BinAdd(BinAdd(h[1], h[2]), h[3]), EmptyBin >>
        ELSE [i \in 1..n |->
                IF i = 1 \/ i = n THEN EmptyBin
                ELSE IF i = 2 THEN BinAdd(h[1], h[2])
                ELSE IF i = n - 1 THEN BinAdd(h[n - 1], h[n])
                ELSE h[i]]

\* Tools.forceBinning: the histogram rebuilt on the binning of xVar
forceBinning(h, xVar) ==
    [i \in 1..(VarBins(xVar) + 2) |-> IF i <= Len(h) THEN h[i] ELSE EmptyBin]

\* the ROOT bins of xVar hidden in real data (Variable.blindRegion)
BlindedBins(xVar) == IF xVar = "x" THEN {2} ELSE {}

\* Variable.applyBlinding( cut, hist )
applyBlinding(xVar, cut, h) ==
    [i \in 1..Len(h) |-> IF (i - 1) \in BlindedBins(xVar) THEN EmptyBin ELSE h[i]]

\* ---------------------------------------------------------------- state
VARIABLES
    cfg,             \* the attributes of every Dataset and PhysicsProcess, by name
    store,           \* the HistogramStore: key -> stored histogram
    openTrees,       \* Dataset.openTrees: per dataset, tree name -> resident tree
    treeEntryLists,  \* Dataset.treeEntryLists: per dataset, tree name -> entry list
    last,            \* the last operation: its arguments, its result, what it did
    DATASETS,        \* the registry of datasets: name -> Dataset
    PHYSICSPROCESSES \* the registry of processes: name -> PhysicsProcess

vars == << cfg, store, openTrees, treeEntryLists, last, DATASETS, PHYSICSPROCESSES >>

Samples == Leaves \cup (Processes \ {"F1", "F2"})

\* the names Dataset.scaleFactors can hold, in the order they are multiplied
ScaleFactorNames == << "crossSection", "kFactor", "branchingRatio", "filterEfficiency", "rQCD" >>

RECURSIVE ProductFrom(_, _)
ProductFrom(i, sf) ==
    IF i > Len(ScaleFactorNames) THEN ROne
    ELSE RMul(IF ScaleFactorNames[i] \in DOMAIN sf THEN RInt(sf[ScaleFactorNames[i]]) ELSE ROne,
              ProductFrom(i + 1, sf))

\* Dataset.combinedScaleFactors: the product of all global scale factors
combinedScaleFactors(c) == ProductFrom(1, c.scaleFactors)

\* HistogramBasedSumOfWeightsCalculator.calculate: the metadata bin summed over
\* the files found (self.calculated is never set, so it is summed on every call)
calculate(c, s) == BinContentOf(FilesOf(c.fileList))

\* Dataset.sumOfWeights (getter): the preset value, else the calculator's
sumOfWeights(c, s) == IF c.sumOfWeights # 0 THEN c.sumOfWeights ELSE calculate(c, s)

\* the calculator runs the getter makes when the property is read n times
Calculations(c, n) == IF c.sumOfWeights # 0 THEN 0 ELSE n

\* Dataset._determineVariable
determineVariable(c, xVar) ==
    IF xVar \in DOMAIN c.replaceVariables THEN c.replaceVariables[xVar] ELSE xVar

RECURSIVE WithoutAll(_, _, _)
WithoutAll(cut, ignoreCuts, i) ==
    IF i > Len(ignoreCuts) THEN cut
    ELSE WithoutAll(CutWithout(cut, ignoreCuts[i]), ignoreCuts, i + 1)

RECURSIVE AddAll(_, _, _)
AddAll(cut, addCuts, i) ==
    IF i > Len(addCuts) THEN cut ELSE AddAll(CutAnd(cut, addCuts[i]), addCuts, i + 1)

\* (mutant) the added cuts are appended first, the ignored cuts removed last
determineCutCombineFirst(c, cut) ==
    WithoutAll(AddAll(CutAnd(EmptyCut, cut), c.addCuts, 1), c.ignoreCuts, 1)

\* Dataset._determineCut: the ignored cuts are removed from the given cut,
\* then the added cuts are appended
determineCut(c, cut) == AddAll(WithoutAll(CutAnd(EmptyCut, cut), c.ignoreCuts, 1), c.addCuts, 1)

\* ------------------------------------------------- what an operation did
EmptyLog ==
    [ scans |-> 0, gets |-> 0, puts |-> 0, opens |-> 0, calcs |-> 0,
      put |-> NoHist, trees |-> <<>>, variation |-> NoVariation, cut |-> EmptyCut,
      sets |-> <<>> ]   \* the systematics set each dataset asked worked with

\* the program state an operation reads and writes, and its log
Env(st, op, tr) == [ store |-> st, openTrees |-> op, treeEntryLists |-> tr, log |-> EmptyLog ]

\* a function with x mapped to v
Put(f, x, v) == [k \in DOMAIN f \cup {x} |-> IF k = x THEN v ELSE f[k]]
\* a function without x
Drop(f, x) == [k \in DOMAIN f \ {x} |-> f[k]]

\* ------------------------------------------------------- HistogramStore
StoreKey(s, v, xVar, cut) == [s |-> s, v |-> v, x |-> xVar, c |-> cut]

\* HistogramStore.getHistogram( dataset, systematicVariation, var, cut )
storeGet(st, key) == IF key \in DOMAIN st THEN st[key] ELSE NoHist

\* HistogramStore.putHistogram( dataset, systematicVariation, var, cut, hist )
storePut(st, key, h) == Put(st, key, h)

\* ------------------------------------------------------- Dataset (leaf)
\* Dataset._applyPreselectionToTree: the entry list of the preselection is
\* taken from treeEntryLists when one is stored for the tree name, else drawn
\* with the current preselection and stored
applyPreselectionToTree(lists, c, tree) ==
    LET selection == c.preselection
        bare == [tree EXCEPT !.entryList = {}]
    IN  IF selection = EmptyCut THEN [lists |-> lists, tree |-> bare]
        ELSE IF tree.name \in DOMAIN lists
             THEN [lists |-> lists, tree |-> [bare EXCEPT !.entryList = lists[tree.name]]]
             ELSE [lists |-> Put(lists, tree.name, selection),
                   tree |-> [bare EXCEPT !.entryList = selection]]

\* (mutant) a chain without entries tests false
TreeIsEmpty(tree) == tree.rows = <<>>

\* "not tree" on the TChain that _open returns: _open constructs the chain
\* before it looks for files and returns that object on every path, so the
\* test never succeeds
TreeIsNull(tree) == FALSE

\* Dataset._open( treeName ): the resident tree, else a new chain of the files
open(e, c, s, treeName) ==
    LET tn == IF treeName = NoTree THEN VarTreeName("nominal") ELSE treeName
        e1 == [e EXCEPT !.log.trees = Append(@, tn)]
    IN  IF tn \in DOMAIN e.openTrees[s]
        THEN [e |-> e1, tree |-> e.openTrees[s][tn]]
        ELSE IF c.nFiles > 0
             THEN LET chain == [Tree(tn, ChainRows(FilesOf(c.fileList), tn), {})
                                    EXCEPT !.id = NewTreeId(e.openTrees)]
                      ap == applyPreselectionToTree(e.treeEntryLists[c.dicts], c, chain)
                  IN  [e |-> [e1 EXCEPT !.treeEntryLists[c.dicts] = ap.lists,
                                        !.openTrees[s] = IF c.keepTreesInMemory
                                                         THEN Put(@, tn, ap.tree) ELSE @,
                                        !.log.opens = @ + 1,
                                        !.log.calcs = @ + Calculations(c, 1)],
                       tree |-> ap.tree]
             ELSE [e |-> e1, tree |-> Tree(tn, <<>>, {})]

\* Dataset._close( treeName )
close(e, s, treeName) ==
    [e EXCEPT !.openTrees[s] = IF treeName \in DOMAIN @ THEN Drop(@, treeName) ELSE @]

\* the weight expression a query uses (getHistogram, lines 838-840)
queryWeight(c, q) ==
    IF q.ignoreDataWeight /\ c.isData THEN c.weightExpression
    ELSE IF q.weightExpression # NoWeight THEN q.weightExpression
    ELSE c.weightExpression

\* the variation a query names, the nominal one by default
requestedVariation(q) ==
    IF q.systematicVariation # NoVariation THEN q.systematicVariation ELSE "nominal"

\* the systematics of the dataset united with those handed to the query
effectiveSystematics(c, q) == c.systematicsSet \cup q.systematicsSet

\* getHistogram, lines 847-849: a variation whose systematics is not in the
\* set is replaced by the nominal one
demote(v, systematicsSet) ==
    IF VarSystematics(v) = NoSystematics \/ VarSystematics(v) \notin systematicsSet
    THEN "nominal" ELSE v

\* getHistogram, line 854: the variation the store is keyed with
storeVariation(v) == IF IsShapeSystematics(v) THEN v ELSE "nominal"

\* (mutant) the recreate flag is not looked at
mustCreateIfMissing(stored, recreate) == stored = NoHist

\* getHistogram, line 862: whether the histogram is created from the tree
mustCreate(stored, recreate) == stored = NoHist \/ recreate

\* getHistogram, lines 870-871: a simulated histogram with a nonzero integral
\* is divided by a nonzero sum of weights
divides(c, s, h) ==
    /\ h # NoHist
    /\ sumOfWeights(c, s) # 0
    /\ HistIntegral(h, 0, Len(h) - 1) # RZero
    /\ ~c.isData

normalise(c, s, h) ==
    IF divides(c, s, h) THEN HistScale(h, RInv(RInt(sumOfWeights(c, s)))) ELSE h

\* luminosity = None, the default of getCutFlowYields and getCutflowHistogram
NoLuminosity == -1

\* getHistogram, lines 884-885 (getValues 812-813, getHistogram2D 943-944):
\* "sF *= luminosity" of a simulated dataset raises TypeError when the
\* luminosity is None
luminosityRaises(c, q) == q.luminosity = NoLuminosity /\ ~c.isData

\* (mutant) real data is scaled to the luminosity as well
scaleFactorWithLuminosity(c, systematicsSet, v, cut, luminosity) ==
    RMul(RMul(combinedScaleFactors(c), totalScaleFactor(systematicsSet, v, cut)),
         RInt(luminosity))

\* getHistogram, lines 883-885: the factor the returned histogram is scaled by
scaleFactor(c, systematicsSet, v, cut, luminosity) ==
    RMul(RMul(combinedScaleFactors(c), totalScaleFactor(systematicsSet, v, cut)),
         IF c.isData THEN ROne ELSE RInt(luminosity))

\* getHistogram, lines 877-887: binning, overflow and scale factors
finish(c, q, h, xVar, systematicsSet, v, cut) ==
    LET forced == IF q.forceBinning THEN forceBinning(h, xVar) ELSE h
        folded == IF q.includeOverflowBins THEN overflowIntoLastBins(forced) ELSE forced
    IN  IF h = NoHist THEN NoHist
        ELSE HistScale(folded, scaleFactor(c, systematicsSet, v, cut, q.luminosity))

\* (mutant) the blinding is applied to simulated datasets as well
blindAlways(c, xVar, cut, h) == IF h # NoHist THEN applyBlinding(xVar, cut, h) ELSE h

\* getHistogram, lines 892-893: blinding of real data
blind(c, xVar, cut, h) == IF c.isData /\ h # NoHist THEN applyBlinding(xVar, cut, h) ELSE h

\* (mutant) the histogram is put into the store with the scale factors applied
toStoreScaled(c, st, key, h) ==
    IF c.histogramStore THEN storePut(st, key, HistScale(h, combinedScaleFactors(c))) ELSE st

\* (mutant) the created histogram is not put into the store
toStoreNothing(c, st, key, h) == st

\* getHistogram, lines 873-874: the histogram handed to the store
toStore(c, st, key, h) == IF c.histogramStore THEN storePut(st, key, h) ELSE st

\* Dataset.getHistogram
Dataset_getHistogram(e, c, s, q) ==
    LET weightExpression == queryWeight(c, q)
        cut == determineCut(c, q.cut)
        xVar == determineVariable(c, q.xVar)
        systematicsSet == effectiveSystematics(c, q)
        v == demote(requestedVariation(q), systematicsSet)
        key == StoreKey(c.name, storeVariation(v), xVar, cut)
        stored == IF c.histogramStore THEN storeGet(e.store, key) ELSE NoHist
        e1 == [e EXCEPT !.log.gets = @ + (IF c.histogramStore THEN 1 ELSE 0),
                        !.log.variation = v, !.log.cut = cut,
                        !.log.sets = Append(@, systematicsSet)]
        o == open(e1, c, s, VarTreeName(v))
        scanned == createHistogramFromTree(o.tree, xVar, cut,
                       WeightTimes(weightExpression, totalWeight(systematicsSet, v, cut)))
        fresh == normalise(c, s, scanned)
        e2 == [o.e EXCEPT !.store = toStore(c, @, key, fresh),
                          !.log.scans = @ + 1,
                          !.log.puts = @ + (IF c.histogramStore THEN 1 ELSE 0),
                          !.log.put = storeGet(toStore(c, e.store, key, fresh), key),
                          !.log.calcs = @ + Calculations(c, IF divides(c, s, scanned) THEN 3 ELSE 1)]
        create == mustCreate(stored, q.recreate)
        hist == IF create THEN fresh ELSE stored
    IN  IF create /\ TreeIsNull(o.tree) THEN [e |-> o.e, hist |-> NoHist, raised |-> FALSE]
        ELSE IF luminosityRaises(c, q)
        THEN [e |-> IF create THEN e2 ELSE e1, hist |-> NoHist, raised |-> TRUE]
        ELSE [e |-> close(IF create THEN e2 ELSE e1, s, VarTreeName(v)),
              hist |-> blind(c, xVar, cut, finish(c, q, hist, xVar, systematicsSet, v, cut)),
              raised |-> FALSE]

\* Dataset.getValues: the values and weights of the selected rows of the tree
\* of the requested variation, the weights times the scale factors
RECURSIVE ValuesFrom(_, _, _, _, _, _)
ValuesFrom(i, tree, xVar, cut, w, sF) ==
    IF i > Len(tree.rows) THEN <<>>
    ELSE LET r == tree.rows[i]
         IN  (IF Selected(tree, r, cut)
              THEN << [value |-> ValueOf(r, xVar), weight |-> RMul(RInt(WeightOf(r, w)), sF)] >>
              ELSE <<>>)
             \o ValuesFrom(i + 1, tree, xVar, cut, w, sF)

\* getValues, line 802: the variation whose tree and weights are read
valuesVariation(q, systematicsSet) == requestedVariation(q)

Dataset_getValues(e, c, s, q) ==
    LET weightExpression == IF q.weightExpression # NoWeight THEN q.weightExpression
                            ELSE c.weightExpression
        systematicsSet == effectiveSystematics(c, q)
        v == valuesVariation(q, systematicsSet)
        cut == determineCut(c, q.cut)
        w == WeightTimes(weightExpression, totalWeight(systematicsSet, v, EmptyCut))
        xVar == determineVariable(c, q.xVar)
        o == open([e EXCEPT !.log.variation = v, !.log.cut = cut,
                            !.log.sets = Append(@, systematicsSet)], c, s, VarTreeName(v))
        sF == scaleFactor(c, systematicsSet, v, cut, q.luminosity)
    IN  IF TreeIsNull(o.tree) THEN [e |-> o.e, values |-> <<>>, none |-> TRUE, raised |-> FALSE]
        ELSE IF luminosityRaises(c, q)
        THEN [e |-> [o.e EXCEPT !.log.scans = @ + 1], values |-> <<>>,
              none |-> FALSE, raised |-> TRUE]
        ELSE [e |-> [o.e EXCEPT !.log.scans = @ + 1],
              values |-> ValuesFrom(1, o.tree, xVar, cut, w, sF),
              none |-> FALSE, raised |-> FALSE]

\* TreePlot.create2DHistogramFromTree: bin (i, j) at position [i+1][j+1]
create2DHistogramFromTree(tree, xVar, yVar, cut, w) ==
    [i \in 1..(VarBins(xVar) + 2) |->
        createHistogramFromTree(
            [tree EXCEPT !.rows = SelectSeq(tree.rows,
                LAMBDA r : BinOf(ValueOf(r, xVar), VarBins(xVar)) = i - 1)],
            yVar, cut, w)]

\* TH2::Integral(): the sum of the regular bins
Hist2DIntegral(h) ==
    SumTo([i \in 1..(Len(h) - 2) |-> HistIntegral(h[i + 1], 1, Len(h[i + 1]) - 2)], Len(h) - 2)

Hist2DScale(h, f) == [i \in 1..Len(h) |-> HistScale(h[i], f)]

\* getHistogram2D, lines 926-928: the variation is looked up in the dataset's
\* own systematics, not in the united set
demote2D(v, c, systematicsSet) == demote(v, c.systematicsSet)

\* Dataset.getHistogram2D
Dataset_getHistogram2D(e, c, s, q) ==
    LET weightExpression == IF q.weightExpression # NoWeight THEN q.weightExpression
                            ELSE c.weightExpression
        cut == determineCut(c, q.cut)
        xVar == determineVariable(c, q.xVar)
        systematicsSet == effectiveSystematics(c, q)
        v == demote2D(requestedVariation(q), c, systematicsSet)
        w == WeightTimes(weightExpression, totalWeight(systematicsSet, v, cut))
        o == open([e EXCEPT !.log.variation = v, !.log.cut = cut,
                            !.log.sets = Append(@, systematicsSet)], c, s, VarTreeName(v))
        scanned == create2DHistogramFromTree(o.tree, xVar, q.yVar, cut, w)
        sow == sumOfWeights(c, s)
        divide == sow # 0 /\ Hist2DIntegral(scanned) # RZero /\ ~c.isData
        fresh == IF divide THEN Hist2DScale(scanned, RInv(RInt(sow))) ELSE scanned
        sF == scaleFactor(c, systematicsSet, v, cut, q.luminosity)
    IN  IF TreeIsNull(o.tree) THEN [e |-> o.e, hist |-> NoHist, raised |-> FALSE]
        ELSE [e |-> [o.e EXCEPT !.log.scans = @ + 1,
                                !.log.calcs = @ + Calculations(c, IF divide THEN 3 ELSE 1)],
              hist |-> IF luminosityRaises(c, q) THEN NoHist ELSE Hist2DScale(fresh, sF),
              raised |-> luminosityRaises(c, q)]

\* ------------------------------------------- PhysicsProcess (composite)
RECURSIVE getHistogram(_, _, _, _)
RECURSIVE mergeDatasets(_, _, _, _, _, _)

\* PhysicsProcess.getHistogram, lines 1376-1380: the context handed to the
\* daughters
daughterQuery(c, q) ==
    [q EXCEPT !.systematicsSet = c.systematicsSet \cup @,
              !.cut = determineCut(c, @),
              !.xVar = determineVariable(c, @)]

\* (mutant) the scale factors of the process are applied a second time
processScaleTwice(c, histogram) ==
    IF histogram = NoHist THEN NoHist
    ELSE HistScale(HistScale(histogram, combinedScaleFactors(c)), combinedScaleFactors(c))

\* PhysicsProcess.getHistogram, lines 1392-1395: the merged histogram times
\* the scale factors of the process itself
processScale(c, histogram) ==
    IF histogram = NoHist THEN NoHist ELSE HistScale(histogram, combinedScaleFactors(c))

\* (mutant) a daughter without a histogram discards what was summed so far
mergeOrNothing(histogram, h) ==
    IF h = NoHist THEN NoHist ELSE IF histogram = NoHist THEN h ELSE HistAdd(histogram, h)

\* PhysicsProcess.getHistogram, lines 1384-1391: one daughter's histogram is
\* added to the sum, a missing one is skipped
merge(histogram, h) ==
    IF h = NoHist THEN histogram ELSE IF histogram = NoHist THEN h ELSE HistAdd(histogram, h)

\* PhysicsProcess.getHistogram
PhysicsProcess_getHistogram(e, cfgs, p, q) ==
    LET m == mergeDatasets(e, cfgs, cfgs[p].datasets, 1, daughterQuery(cfgs[p], q), NoHist)
    IN  [e |-> m.e, hist |-> processScale(cfgs[p], m.hist), raised |-> m.raised]

mergeDatasets(e, cfgs, datasets, i, q, histogram) ==
    IF i > Len(datasets) THEN [e |-> e, hist |-> histogram, raised |-> FALSE]
    ELSE LET r == getHistogram(e, cfgs, datasets[i], q)
         IN  IF r.raised THEN [e |-> r.e, hist |-> NoHist, raised |-> TRUE]
             ELSE mergeDatasets(r.e, cfgs, datasets, i + 1, q, merge(histogram, r.hist))

\* getHistogram of a dataset or of a process
getHistogram(e, cfgs, n, q) ==
    IF n \in Processes THEN PhysicsProcess_getHistogram(e, cfgs, n, q)
    ELSE Dataset_getHistogram(e, cfgs[n], n, q)

\* PhysicsProcess.getValues, line 1358: the weights times the scale factors of
\* the process
ScaleWeights(values, f) ==
    [i \in 1..Len(values) |-> [values[i] EXCEPT !.weight = RMul(@, f)]]

RECURSIVE getValues(_, _, _, _)
RECURSIVE appendDatasets(_, _, _, _, _, _)

\* PhysicsProcess.getValues: the values of the daughters appended in order;
\* unpacking the result of a daughter that returned nothing raises
PhysicsProcess_getValues(e, cfgs, p, q) ==
    LET a == appendDatasets(e, cfgs, cfgs[p].datasets, 1, daughterQuery(cfgs[p], q), <<>>)
    IN  [e |-> a.e, none |-> FALSE, raised |-> a.raised,
         values |-> IF a.raised THEN <<>>
                    ELSE ScaleWeights(a.values, combinedScaleFactors(cfgs[p]))]

appendDatasets(e, cfgs, datasets, i, q, values) ==
    IF i > Len(datasets) THEN [e |-> e, values |-> values, raised |-> FALSE]
    ELSE LET r == getValues(e, cfgs, datasets[i], q)
         IN  IF r.raised \/ r.none THEN [e |-> r.e, values |-> <<>>, raised |-> TRUE]
             ELSE appendDatasets(r.e, cfgs, datasets, i + 1, q, values \o r.values)

\* getValues of a dataset or of a process
getValues(e, cfgs, n, q) ==
    IF n \in Processes THEN PhysicsProcess_getValues(e, cfgs, n, q)
    ELSE Dataset_getValues(e, cfgs[n], n, q)

RECURSIVE getHistogram2D(_, _, _, _)
RECURSIVE mergeDatasets2D(_, _, _, _, _, _)

\* PhysicsProcess.getHistogram2D, lines 1414-1422: the arguments handed to the
\* daughters; the systematics set united on line 1414 is not among them
daughterQuery2D(c, q) ==
    [q EXCEPT !.systematicsSet = {},
              !.cut = determineCut(c, @),
              !.xVar = determineVariable(c, @),
              !.yVar = determineVariable(c, @)]

\* TH2::Add
Hist2DAdd(a, b) == [i \in 1..Len(a) |-> HistAdd(a[i], b[i])]

\* PhysicsProcess.getHistogram2D, lines 1423-1430
merge2D(histogram, h) ==
    IF h = NoHist THEN histogram ELSE IF histogram = NoHist THEN h ELSE Hist2DAdd(histogram, h)

\* PhysicsProcess.getHistogram2D
PhysicsProcess_getHistogram2D(e, cfgs, p, q) ==
    LET m == mergeDatasets2D(e, cfgs, cfgs[p].datasets, 1, daughterQuery2D(cfgs[p], q), NoHist)
    IN  [e |-> m.e, raised |-> m.raised,
         hist |-> IF m.hist = NoHist THEN NoHist
                  ELSE Hist2DScale(m.hist, combinedScaleFactors(cfgs[p]))]

mergeDatasets2D(e, cfgs, datasets, i, q, histogram) ==
    IF i > Len(datasets) THEN [e |-> e, hist |-> histogram, raised |-> FALSE]
    ELSE LET r == getHistogram2D(e, cfgs, datasets[i], q)
         IN  IF r.raised THEN [e |-> r.e, hist |-> NoHist, raised |-> TRUE]
             ELSE mergeDatasets2D(r.e, cfgs, datasets, i + 1, q, merge2D(histogram, r.hist))

\* getHistogram2D of a dataset or of a process
getHistogram2D(e, cfgs, n, q) ==
    IF n \in Processes THEN PhysicsProcess_getHistogram2D(e, cfgs, n, q)
    ELSE Dataset_getHistogram2D(e, cfgs[n], n, q)

\* getYield, line 782: the query getYield hands to getHistogram
yieldQuery(q) ==
    [q EXCEPT !.xVar = "yield", !.includeOverflowBins = FALSE, !.forceBinning = FALSE]

\* Dataset.getYield (inherited by PhysicsProcess): the integral of the one-bin
\* histogram over all its bins and the error of the integral, kept as its
\* square; a missing histogram raises.  The queries made do not ignore the
\* weights.
getYield(e, cfgs, n, q) ==
    LET yield(r) ==
            [e |-> r.e, hist |-> r.hist, raised |-> r.hist = NoHist,
             value |-> IF r.hist = NoHist THEN RZero
                       ELSE HistIntegral(r.hist, 0, VarBins("yield") + 2),
             error2 |-> IF r.hist = NoHist THEN RZero
                        ELSE HistIntegralError2(r.hist, 0, VarBins("yield") + 2)]
    IN  yield(getHistogram(e, cfgs, n, yieldQuery(q)))

\* ----------------------------------------------------------- construction
NoFunction == [k \in {} |-> 0]
NoName == "none"

\* getCutFlowYields, lines 1014-1017: the cut the yield is asked for
nextCut(myCut, cut, accumulateCuts) == IF accumulateCuts THEN CutAnd(myCut, cut) ELSE cut

\* what getYield returns: the yield and its uncertainty, kept as its square
YieldOf(r) == [value |-> r.value, error2 |-> r.error2]

\* Dataset.getCutFlowYields: what getYield returns for every cut of the list,
\* by cut; q holds the luminosity, the variation, the systematics and recreate
RECURSIVE cutFlowFrom(_, _, _, _, _, _, _, _, _)
cutFlowFrom(e, cfgs, n, cuts, i, q, accumulateCuts, myCut, result) ==
    IF i > Len(cuts) THEN [e |-> e, result |-> result, raised |-> FALSE]
    ELSE LET mine == nextCut(myCut, cuts[i], accumulateCuts)
             rest(r) ==
                 IF r.raised THEN [e |-> r.e, result |-> NoFunction, raised |-> TRUE]
                 ELSE cutFlowFrom(r.e, cfgs, n, cuts, i + 1, q, accumulateCuts, mine,
                                  Put(result, cuts[i], YieldOf(r)))
         IN  rest(getYield(e, cfgs, n, [q EXCEPT !.cut = mine]))

getCutFlowYields(e, cfgs, n, cuts, q, accumulateCuts) ==
    cutFlowFrom(e, cfgs, n, cuts, 1, q, accumulateCuts, EmptyCut, NoFunction)

\* Dataset.getCutflowHistogram: a histogram with one bin per cut, in the order
\* of the list, that holds the yield of the cut and its error; the yields
\* are asked for without recreate
getCutflowHistogram(e, cfgs, n, cuts, q, accumulateCuts) ==
    LET histogram(yields) ==
            [e |-> yields.e, raised |-> yields.raised,
             hist |-> IF yields.raised THEN NoHist
                      ELSE << EmptyBin >>
                           \o [i \in 1..Len(cuts) |-> Bin(yields.result[cuts[i]].value,
                                                         yields.result[cuts[i]].error2)]
                           \o << EmptyBin >>]
    IN  histogram(getCutFlowYields(e, cfgs, n, cuts, [q EXCEPT !.recreate = FALSE],
                                   accumulateCuts))

\* createCutflowPlot, lines 1457-1458: the cutflow histograms of the datasets
\* from the i-th on, each asked for with the luminosity and with the defaults
\* of getCutflowHistogram for the rest
RECURSIVE cutflowHistogramsFrom(_, _, _, _, _, _, _)
cutflowHistogramsFrom(e, cfgs, datasets, i, cuts, q, histograms) ==
    IF i > Len(datasets) THEN [e |-> e, histograms |-> histograms, raised |-> FALSE]
    ELSE LET rest(r) ==
                 IF r.raised THEN [e |-> r.e, histograms |-> <<>>, raised |-> TRUE]
                 ELSE cutflowHistogramsFrom(r.e, cfgs, datasets, i + 1, cuts, q,
                                            Append(histograms, r.hist))
         IN  rest(getCutflowHistogram(e, cfgs, datasets[i], cuts, q, TRUE))

\* the longest list of file names
MaxFiles == 3

\* the list objects _hashFileNames can refer to: none, the list that the
\* attribute fileNames of a dataset refers to (it changes with it), or a list
\* no fileNames refers to any more
NoList == [is |-> "none", of |-> "none", value |-> <<>>]
ListOf(n) == [is |-> "fileNames", of |-> n, value |-> <<>>]
OtherList(value) == [is |-> "other", of |-> "none", value |-> value]

\* the names the list holds now
listValue(cfgs, l) == IF l.is = "fileNames" THEN cfgs[l.of].fileList ELSE l.value
NoHash == [files |-> <<>>, sumOfWeights |-> 0, weightExpression |-> NoWeight, made |-> FALSE]

\* _calculateHash, line 348: the list the hash was made of equals fileNames
hashIsCurrent(cfgs, c) ==
    c.hashFileNames.is # "none" /\ listValue(cfgs, c.hashFileNames) = c.fileList

\* _calculateHash, lines 350-369: the digest of the files found and of the sum
\* of weights; the digest stands for its input
digest(c, s) ==
    [ files |-> FilesOf(c.fileList), sumOfWeights |-> sumOfWeights(c, s),
      weightExpression |-> NoWeight, made |-> TRUE ]

\* Dataset._calculateHash
calculateHash(cfgs, s) ==
    IF hashIsCurrent(cfgs, cfgs[s]) THEN cfgs[s]
    ELSE [cfgs[s] EXCEPT !.hash = digest(cfgs[s], s), !.hashFileNames = ListOf(s)]

\* Dataset.md5 (getter), lines 376-380
md5(c) == [c.hash EXCEPT !.weightExpression = c.weightExpression]

\* Dataset.__init__ / PhysicsProcess.__init__: the attributes after construction
\* of the datasets and processes of the analysis.  s1 and s2 are simulated (the
\* sum of weights of s1 is set, that of s2 is left to the calculator), the file
\* pattern of s3 matches no file, d1 is real data; P1 groups s1 and s2, P2 nests P1.
Construct(n, histogramStore) ==
    [ name |-> n,
      dicts |-> n,     \* whose treeEntryLists and replaceVariables objects it holds
      fileList |-> IF n \in Processes THEN <<>>        \* the list fileNames
                   ELSE IF n = "s3" THEN << "s3*" >> ELSE << n >>,
      hashFileNames |-> NoList,   \* _hashFileNames: the list object the hash was made of
      hash |-> NoHash,            \* _hash
      crossSection |-> IF n = "s2" THEN 2 ELSE IF n \in Processes THEN 0 ELSE 1,
      kFactor |-> IF n = "P1" THEN 2 ELSE 1,
      dsid |-> 0,
      isData |-> n = "d1",
      weightExpression |-> IF n \in Processes THEN NoWeight ELSE << "w" >>,
      sumOfWeights |-> IF n = "s1" THEN 2 ELSE IF n = "d1" THEN 3 ELSE 0,
      scaleFactors |-> IF n \in Processes
                       THEN [k \in {"kFactor"} |-> IF n = "P1" THEN 2 ELSE 1]
                       ELSE [k \in {"crossSection", "kFactor"} |->
                                IF k = "crossSection" /\ n = "s2" THEN 2 ELSE 1],
      systematicsSet |-> {},
      preselection |-> EmptyCut,
      addCuts |-> <<>>,
      ignoreCuts |-> <<>>,
      replaceVariables |-> NoFunction,
      histogramStore |-> histogramStore /\ n \in Leaves,
      keepTreesInMemory |-> FALSE,
      nFiles |-> IF n = "s3" \/ n \in Processes THEN 0 ELSE 1,
      datasets |-> IF n = "P1" THEN << "s1", "s2" >>
                   ELSE IF n = "P2" THEN << "P1", "d1" >>
                   ELSE IF n = "P3" THEN << "s1", "P0", "s3" >> ELSE <<>> ]

\* a query: the arguments of getHistogram, getYield, getValues, getHistogram2D
Query(xVar, cut, weight, lumi, recreate, variation, extra, overflow, force) ==
    [ xVar |-> xVar, yVar |-> "y", cut |-> cut, weightExpression |-> weight,
      luminosity |-> lumi, recreate |-> recreate,
      systematicVariation |-> variation, systematicsSet |-> extra,
      includeOverflowBins |-> overflow, ignoreDataWeight |-> FALSE,
      forceBinning |-> force ]

NoQuery == Query("x", EmptyCut, NoWeight, 1, FALSE, NoVariation, {}, FALSE, FALSE)

NoOperation ==
    [ op |-> "none", s |-> "none", q |-> NoQuery, hist |-> NoHist, hist2 |-> <<>>,
      values |-> <<>>, value |-> RZero, raised |-> FALSE, log |-> EmptyLog,
      again |-> FALSE, before |-> NoHist, warned |-> FALSE, registered |-> FALSE,
      line |-> <<>>, errors |-> <<>>,
      cuts |-> <<>>, accumulateCuts |-> FALSE, result |-> [k \in {} |-> 0],
      md5 |-> NoHash, error2 |-> RZero, histograms |-> <<>>, stacked |-> FALSE,
      objects |-> <<>>, registrations |-> <<>>, name |-> NoName, written |-> <<>> ]

\* the state after the datasets are constructed, with or without a store
InitWith(histogramStore) ==
    /\ cfg = [n \in Samples |-> Construct(n, histogramStore)]
    /\ store = NoFunction
    /\ openTrees = [n \in Leaves |-> NoFunction]
    /\ treeEntryLists = [n \in Leaves |-> NoFunction]
    /\ last = NoOperation
    /\ DATASETS = [n \in Leaves |-> n]
    /\ PHYSICSPROCESSES = [n \in Processes \cap Samples |-> n]

\* the datasets are constructed without a store, with one, or either way
InitPlain == InitWith(FALSE)
InitStore == InitWith(TRUE)
Init == \E histogramStore \in BOOLEAN : InitWith(histogramStore)

\* the record of an operation that repeats the one before it
Again(op, n, q) == last.op = op /\ last.s = n /\ last.q = q

Took(e) ==
    /\ store' = e.store
    /\ openTrees' = e.openTrees
    /\ treeEntryLists' = e.treeEntryLists
    /\ UNCHANGED << DATASETS, PHYSICSPROCESSES >>

Now == Env(store, openTrees, treeEntryLists)

\* -------------------------------------------------------------- actions
\* n.getHistogram( q )
GetHistogram(n, q) ==
    \E r \in { getHistogram(Now, cfg, n, q) } :
        /\ Took(r.e)
        /\ last' = [NoOperation EXCEPT !.op = "getHistogram", !.s = n, !.q = q,
                        !.hist = r.hist, !.raised = r.raised, !.log = r.e.log,
                        !.again = Again("getHistogram", n, q),
                        !.before = IF Again("getHistogram", n, q) THEN last.hist ELSE NoHist]
        /\ UNCHANGED cfg

\* n.getCutFlowYields( cuts, q, accumulateCuts )
GetCutFlowYields(n, cuts, q, accumulateCuts) ==
    \E r \in { getCutFlowYields(Now, cfg, n, cuts, q, accumulateCuts) } :
        /\ Took(r.e)
        /\ last' = [NoOperation EXCEPT !.op = "getCutFlowYields", !.s = n, !.q = q,
                        !.cuts = cuts, !.accumulateCuts = accumulateCuts,
                        !.result = r.result, !.raised = r.raised, !.log = r.e.log]
        /\ UNCHANGED cfg

\* n.getCutflowHistogram( cuts, q, accumulateCuts )
GetCutflowHistogram(n, cuts, q, accumulateCuts) ==
    \E r \in { getCutflowHistogram(Now, cfg, n, cuts, q, accumulateCuts) } :
        /\ Took(r.e)
        /\ last' = [NoOperation EXCEPT !.op = "getCutflowHistogram", !.s = n, !.q = q,
                        !.cuts = cuts, !.accumulateCuts = accumulateCuts,
                        !.hist = r.hist, !.raised = r.raised, !.log = r.e.log]
        /\ UNCHANGED cfg

\* createCutflowPlot( datasets, cuts, luminosity ): the histograms added to
\* the plot, stacked if a luminosity is given
CreateCutflowPlot(datasets, cuts, luminosity) ==
    \E r \in { cutflowHistogramsFrom(Now, cfg, datasets, 1, cuts,
                                       [NoQuery EXCEPT !.xVar = "yield",
                                                       !.luminosity = luminosity],
                                       <<>>) } :
        /\ Took(r.e)
        /\ last' = [NoOperation EXCEPT !.op = "createCutflowPlot", !.cuts = cuts,
                        !.q.luminosity = luminosity, !.accumulateCuts = TRUE,
                        !.histograms = r.histograms,
                        !.stacked = luminosity # NoLuminosity,
                        !.raised = r.raised, !.log = r.e.log]
        /\ UNCHANGED cfg

\* n.getYield( q )
GetYield(n, q) ==
    \E r \in { getYield(Now, cfg, n, q) } :
        /\ Took(r.e)
        /\ last' = [NoOperation EXCEPT !.op = "getYield", !.s = n, !.q = q,
                        !.hist = r.hist, !.value = r.value, !.error2 = r.error2,
                        !.raised = r.raised,
                        !.log = r.e.log,
                        !.again = Again("getYield", n, q),
                        !.before = IF Again("getYield", n, q) THEN last.hist ELSE NoHist]
        /\ UNCHANGED cfg

\* n.getValues( q )
GetValues(n, q) ==
    \E r \in { getValues(Now, cfg, n, q) } :
        /\ Took(r.e)
        /\ last' = [NoOperation EXCEPT !.op = "getValues", !.s = n, !.q = q,
                        !.values = r.values, !.raised = r.raised, !.log = r.e.log]
        /\ UNCHANGED cfg

\* n.getHistogram2D( q ) of a leaf dataset
GetHistogram2D(n, q) ==
    \E r \in { getHistogram2D(Now, cfg, n, q) } :
        /\ Took(r.e)
        /\ last' = [NoOperation EXCEPT !.op = "getHistogram2D", !.s = n, !.q = q,
                        !.hist2 = r.hist, !.raised = r.raised, !.log = r.e.log]
        /\ UNCHANGED cfg

\* n.systematicsSet = value
SetSystematicsSet(n, value) ==
    /\ cfg' = [cfg EXCEPT ![n].systematicsSet = value]
    /\ last' = [NoOperation EXCEPT !.op = "systematicsSet", !.s = n]
    /\ UNCHANGED << store, openTrees, treeEntryLists, DATASETS, PHYSICSPROCESSES >>

\* Dataset.addSystematics( systematics ) and Dataset.removeSystematics(
\* systematics ), lines 605-610 and 616-618, on the set of n itself
addSystematics(cfgs, n, systematics) ==
    [cfgs EXCEPT ![n].systematicsSet = @ \cup {systematics}]

removeSystematics(cfgs, n, systematics) ==
    [cfgs EXCEPT ![n].systematicsSet = @ \ {systematics}]

RECURSIVE addSystematicsToAllDaughters(_, _, _)
RECURSIVE addSystematicsToAllFrom(_, _, _, _)
RECURSIVE removeSystematicsFromAllDaughters(_, _, _)
RECURSIVE removeSystematicsFromAllFrom(_, _, _, _)

\* addSystematicsToAllDaughters( systematics ): a dataset adds it to its own
\* set (lines 620-622), a process hands it to its daughters and leaves its
\* own set as it is (lines 1278-1281)
addSystematicsToAllDaughters(cfgs, n, systematics) ==
    IF n \in Processes THEN addSystematicsToAllFrom(cfgs, cfgs[n].datasets, 1, systematics)
    ELSE addSystematics(cfgs, n, systematics)

addSystematicsToAllFrom(cfgs, datasets, i, systematics) ==
    IF i > Len(datasets) THEN cfgs
    ELSE addSystematicsToAllFrom(addSystematicsToAllDaughters(cfgs, datasets[i], systematics),
                                 datasets, i + 1, systematics)

\* removeSystematicsFromAllDaughters( systematics ): a dataset removes it
\* from its own set (lines 624-626), a process from its own set and from its
\* daughters (lines 1283-1287)
removeSystematicsFromAllDaughters(cfgs, n, systematics) ==
    IF n \in Processes
    THEN removeSystematicsFromAllFrom(removeSystematics(cfgs, n, systematics),
                                      cfgs[n].datasets, 1, systematics)
    ELSE removeSystematics(cfgs, n, systematics)

removeSystematicsFromAllFrom(cfgs, datasets, i, systematics) ==
    IF i > Len(datasets) THEN cfgs
    ELSE removeSystematicsFromAllFrom(
             removeSystematicsFromAllDaughters(cfgs, datasets[i], systematics),
             datasets, i + 1, systematics)

\* n.addSystematics( systematics )
AddSystematics(n, systematics) ==
    /\ cfg' = addSystematics(cfg, n, systematics)
    /\ last' = [NoOperation EXCEPT !.op = "addSystematics", !.s = n]
    /\ UNCHANGED << store, openTrees, treeEntryLists, DATASETS, PHYSICSPROCESSES >>

\* n.removeSystematics( systematics )
RemoveSystematics(n, systematics) ==
    /\ cfg' = removeSystematics(cfg, n, systematics)
    /\ last' = [NoOperation EXCEPT !.op = "removeSystematics", !.s = n]
    /\ UNCHANGED << store, openTrees, treeEntryLists, DATASETS, PHYSICSPROCESSES >>

\* n.addSystematicsToAllDaughters( systematics )
AddSystematicsToAllDaughters(n, systematics) ==
    /\ cfg' = addSystematicsToAllDaughters(cfg, n, systematics)
    /\ last' = [NoOperation EXCEPT !.op = "addSystematicsToAllDaughters", !.s = n]
    /\ UNCHANGED << store, openTrees, treeEntryLists, DATASETS, PHYSICSPROCESSES >>

\* n.removeSystematicsFromAllDaughters( systematics )
RemoveSystematicsFromAllDaughters(n, systematics) ==
    /\ cfg' = removeSystematicsFromAllDaughters(cfg, n, systematics)
    /\ last' = [NoOperation EXCEPT !.op = "removeSystematicsFromAllDaughters", !.s = n]
    /\ UNCHANGED << store, openTrees, treeEntryLists, DATASETS, PHYSICSPROCESSES >>

\* SystematicsSet.treeNames: the trees the shape systematics of the set read,
\* sorted
sortedTreeNames(systematicsSet) ==
    IF "shapeSys" \in systematicsSet THEN << ShapeTree >> ELSE <<>>

\* Dataset.save, lines 649-659: the trees from the i-th on are opened, and
\* the entries that pass the selection are written for every tree that has
\* entries
RECURSIVE saveTrees(_, _, _, _, _, _)
saveTrees(e, c, s, treeNames, i, written) ==
    IF i > Len(treeNames) THEN [e |-> e, written |-> written]
    ELSE LET o == open(e, c, s, treeNames[i])
             newtree == SelectSeq(o.tree.rows, LAMBDA r : Selected(o.tree, r, c.preselection))
         IN  saveTrees(o.e, c, s, treeNames, i + 1,
                       IF o.tree.rows = <<>> THEN written
                       ELSE Append(written, [dataset |-> s, treeName |-> treeNames[i],
                                             entries |-> Len(newtree)]))

\* Dataset.save( fileName ) of a dataset whose output file can be opened or
\* not: nothing is done if it cannot (lines 641-644); else the nominal tree
\* and the trees of the systematics are written with the preselection
\* applied, and the histograms of the input files are summed and written
\* (lines 662-685; the entry under "histograms" is the sum of the metadata bin)
Dataset_save(e, c, s, writable) ==
    IF ~writable THEN [e |-> e, written |-> <<>>, failed |-> << s >>]
    ELSE LET t == saveTrees(e, c, s, << NominalTree >> \o sortedTreeNames(c.systematicsSet),
                            1, <<>>)
         IN  [e |-> t.e, failed |-> <<>>,
              written |-> Append(t.written,
                                 [dataset |-> s, treeName |-> "histograms",
                                  entries |-> BinContentOf(FilesOf(c.fileList))])]

RECURSIVE save(_, _, _, _)
RECURSIVE saveDatasets(_, _, _, _, _)

\* save of a dataset, or of a process (lines 1294-1299): every daughter is
\* saved to the file of its name in the directory (a daughter that is a
\* process takes that file name for the directory of its own daughters);
\* writable are the datasets whose output file can be opened
save(e, cfgs, n, writable) ==
    IF n \in Processes THEN saveDatasets(e, cfgs, cfgs[n].datasets, 1, writable)
    ELSE Dataset_save(e, cfgs[n], n, n \in writable)

saveDatasets(e, cfgs, datasets, i, writable) ==
    IF i > Len(datasets) THEN [e |-> e, written |-> <<>>, failed |-> <<>>]
    ELSE LET r == save(e, cfgs, datasets[i], writable)
             rest == saveDatasets(r.e, cfgs, datasets, i + 1, writable)
         IN  [rest EXCEPT !.written = r.written \o @, !.failed = r.failed \o @]

\* n.save( fileName ) of a dataset, n.save( directory ) of a process
Save(n, writable) ==
    \E r \in { save(Now, cfg, n, writable) } :
        /\ n \in DOMAIN cfg
        /\ Took(r.e)
        /\ last' = [NoOperation EXCEPT !.op = "save", !.s = n, !.log = r.e.log,
                        !.written = r.written, !.errors = r.failed]
        /\ UNCHANGED cfg

\* n._determineCut( cut )
DetermineCut(n, cut) ==
    /\ last' = [NoOperation EXCEPT !.op = "determineCut", !.s = n, !.q.cut = cut,
                    !.log.cut = determineCut(cfg[n], cut)]
    /\ UNCHANGED << cfg, store, openTrees, treeEntryLists, DATASETS, PHYSICSPROCESSES >>

\* n.addCuts.append( cut )
AppendAddCut(n, cut) ==
    /\ cfg' = [cfg EXCEPT ![n].addCuts = Append(@, cut)]
    /\ last' = [NoOperation EXCEPT !.op = "addCuts", !.s = n]
    /\ UNCHANGED << store, openTrees, treeEntryLists, DATASETS, PHYSICSPROCESSES >>

\* n.ignoreCuts.append( cut )
AppendIgnoreCut(n, cut) ==
    /\ cfg' = [cfg EXCEPT ![n].ignoreCuts = Append(@, cut)]
    /\ last' = [NoOperation EXCEPT !.op = "ignoreCuts", !.s = n]
    /\ UNCHANGED << store, openTrees, treeEntryLists, DATASETS, PHYSICSPROCESSES >>

RECURSIVE setPreselection(_, _, _)
RECURSIVE setPreselectionOfAll(_, _, _, _)

\* PhysicsProcess.preselection (setter): the setter called on the daughters of
\* the process, in order
setPreselectionOfAll(st, datasets, i, cut) ==
    IF i > Len(datasets) THEN st
    ELSE setPreselectionOfAll(setPreselection(st, datasets[i], cut), datasets, i + 1, cut)

\* the preselection setter on the attributes, open trees and entry lists st.
\* A dataset keeps the cut, drops its entry lists and applies the preselection
\* to every open tree; a tree that another dataset holds too (a copy made
\* while it was open) is the same object there.  A process keeps nothing and
\* hands the cut to every daughter.
setPreselection(st, n, cut) ==
    IF n \in Processes
    THEN setPreselectionOfAll(st, st.cfg[n].datasets, 1, cut)
    ELSE LET c == [st.cfg[n] EXCEPT !.preselection = cut]
             mine == { st.openTrees[n][t].id : t \in DOMAIN st.openTrees[n] }
         IN  [ cfg |-> [st.cfg EXCEPT ![n] = c],
               treeEntryLists |-> [st.treeEntryLists EXCEPT ![c.dicts] =
                   IF cut = EmptyCut THEN NoFunction
                   ELSE [t \in DOMAIN st.openTrees[n] |-> cut]],
               openTrees |-> [m \in DOMAIN st.openTrees |->
                   [t \in DOMAIN st.openTrees[m] |->
                       IF st.openTrees[m][t].id \in mine
                       THEN applyPreselectionToTree(NoFunction, c, st.openTrees[m][t]).tree
                       ELSE st.openTrees[m][t]]] ]

\* n.preselection = cut
SetPreselection(n, cut) ==
    \E r \in { setPreselection([cfg |-> cfg, openTrees |-> openTrees,
                                 treeEntryLists |-> treeEntryLists], n, cut) } :
        /\ cfg' = r.cfg
        /\ treeEntryLists' = r.treeEntryLists
        /\ openTrees' = r.openTrees
        /\ last' = [NoOperation EXCEPT !.op = "preselection", !.s = n]
        /\ UNCHANGED << store, DATASETS, PHYSICSPROCESSES >>

\* CrossSectionDB: the entries of the cross section database, by DSID
KnownDsids == { 1 }
CrossSectionDB(dsid) ==
    [ crossSection |-> 2, kFactor |-> 2, branchingRatio |-> 1, efficiency |-> 1 ]

\* the dsid setter of a dataset, lines 590-603: cross section, k-factor,
\* branching ratio and filter efficiency are taken from the database
setDsid(c, dsid) ==
    IF dsid = 0 \/ dsid \notin KnownDsids THEN [c EXCEPT !.dsid = dsid]
    ELSE LET dbEntry == CrossSectionDB(dsid)
         IN  [c EXCEPT !.dsid = dsid,
                       !.crossSection = dbEntry.crossSection,
                       !.kFactor = dbEntry.kFactor,
                       !.scaleFactors =
                           Put(Put(Put(Put(@, "crossSection", dbEntry.crossSection),
                                       "kFactor", dbEntry.kFactor),
                                   "branchingRatio", dbEntry.branchingRatio),
                               "filterEfficiency", dbEntry.efficiency)]

\* Dataset._register / PhysicsProcess._register on registry reg, lines 458-459
\* and 1168-1169: the entry of the old name is deleted if the old name is
\* neither None nor the empty string and the entry is this object
Unregistered(reg, obj, oldName) ==
    IF oldName # NoName /\ oldName # "" /\ oldName \in DOMAIN reg /\ reg[oldName] = obj
    THEN Drop(reg, oldName) ELSE reg

\* _register, lines 460-461: the warning that the name is held by another object
RegisterWarns(reg, obj, name, oldName) ==
    LET r == Unregistered(reg, obj, oldName)
    IN  name \in DOMAIN r /\ r[name] # obj

\* (mutant) the object that holds a name keeps it
RegisteredUnlessHeld(reg, obj, name, oldName) ==
    LET r == Unregistered(reg, obj, oldName)
    IN  IF name \in DOMAIN r THEN r ELSE Put(r, name, obj)

\* _register, line 462: the name maps to the object
Registered(reg, obj, name, oldName) == Put(Unregistered(reg, obj, oldName), name, obj)

\* the objects of the program: their attributes and trees and the two
\* registries, with the registrations the operation under way has made
Objects ==
    [ cfg |-> cfg, openTrees |-> openTrees, treeEntryLists |-> treeEntryLists,
      DATASETS |-> DATASETS, PHYSICSPROCESSES |-> PHYSICSPROCESSES,
      registrations |-> <<>> ]

\* obj._register( oldName ), called by the name setter of obj whose name is
\* name now: a dataset registers in DATASETS, a process in PHYSICSPROCESSES
register(st, obj, name, oldName) ==
    IF obj \in Processes
    THEN [st EXCEPT !.PHYSICSPROCESSES = Registered(@, obj, name, oldName),
                    !.registrations = Append(@, [obj |-> obj, name |-> name,
                        warned |-> RegisterWarns(st.PHYSICSPROCESSES, obj, name, oldName)])]
    ELSE [st EXCEPT !.DATASETS = Registered(@, obj, name, oldName),
                    !.registrations = Append(@, [obj |-> obj, name |-> name,
                        warned |-> RegisterWarns(st.DATASETS, obj, name, oldName)])]

\* whether one of the registrations gave the warning
Warned(registrations) == \E i \in 1..Len(registrations) : registrations[i].warned

\* the objects after the operation
Became(st) ==
    /\ cfg' = st.cfg
    /\ openTrees' = st.openTrees
    /\ treeEntryLists' = st.treeEntryLists
    /\ DATASETS' = st.DATASETS
    /\ PHYSICSPROCESSES' = st.PHYSICSPROCESSES
    /\ UNCHANGED store

\* the name setter on object obj, lines 469-479: it registers unless the new
\* name is the very string object the old name is
SetNameOf(obj, c, name, oldName, identical) ==
    \E r \in { IF identical THEN Objects ELSE register(Objects, obj, name, oldName) } :
        /\ DATASETS' = r.DATASETS
        /\ PHYSICSPROCESSES' = r.PHYSICSPROCESSES
        /\ last' = [NoOperation EXCEPT !.op = "name", !.s = obj,
                        !.registered = ~identical,
                        !.registrations = r.registrations,
                        !.warned = Warned(r.registrations)]

\* n.name = name
SetName(n, name, identical) ==
    /\ n \in DOMAIN cfg
    /\ identical => name = cfg[n].name
    /\ name # cfg[n].name => ~identical
    /\ cfg' = [cfg EXCEPT ![n].name = name]
    /\ SetNameOf(n, cfg[n], name, cfg[n].name, identical)
    /\ UNCHANGED << store, openTrees, treeEntryLists >>

\* Dataset.defaultHistogramStore, line 241: the store a dataset is constructed
\* with, the one the datasets of the analysis were constructed with
defaultHistogramStore(cfgs) == cfgs["s1"].histogramStore

\* Dataset.__init__( name, fileNames=fileNames, crossSection=crossSection,
\* kFactor=kFactor ), lines 207-252: the attributes of the dataset in slot n,
\* with the defaults for what is not given
Dataset_init(n, name, fileNames, crossSection, kFactor, histogramStore) ==
    [ name |-> name,
      dicts |-> n,
      fileList |-> fileNames,
      hashFileNames |-> NoList,
      hash |-> NoHash,
      crossSection |-> crossSection,
      kFactor |-> kFactor,
      dsid |-> 0,
      isData |-> FALSE,
      weightExpression |-> NoWeight,
      sumOfWeights |-> 0,
      scaleFactors |-> [k \in {"crossSection", "kFactor"} |->
                           IF k = "crossSection" THEN crossSection ELSE kFactor],
      systematicsSet |-> {},
      preselection |-> EmptyCut,
      addCuts |-> <<>>,
      ignoreCuts |-> <<>>,
      replaceVariables |-> NoFunction,
      histogramStore |-> histogramStore,
      keepTreesInMemory |-> FALSE,
      nFiles |-> Len(FilesOf(fileNames)),
      datasets |-> <<>> ]

\* the constructor of a dataset run among the objects st: the dataset in slot
\* n has the attributes c, no open trees and no entry lists, and its name
\* setter has registered it
newDataset(st, n, c) ==
    register([st EXCEPT !.cfg = Put(@, n, c),
                        !.openTrees = Put(@, n, NoFunction),
                        !.treeEntryLists = Put(@, n, NoFunction)],
             n, c.name, NoName)

\* n = Dataset( name, fileNames=fileNames ): a dataset constructed while the
\* analysis runs
NewDataset(n, name, fileNames) ==
    \E r \in { newDataset(Objects, n, Dataset_init(n, name, fileNames, 1, 1,
                                                    defaultHistogramStore(cfg))) } :
        /\ n \notin DOMAIN cfg /\ n \notin Processes
        /\ Became(r)
        /\ last' = [NoOperation EXCEPT !.op = "Dataset", !.s = n, !.registered = TRUE,
                        !.objects = << n >>,
                        !.registrations = r.registrations,
                        !.warned = Warned(r.registrations)]

\* a line of a text file of datasets, 'name; title; NOMINAL; color;
\* crossSection; kFactor; file1, file2': first is its first character, which
\* is empty for a blank line; the numbers are those the items are parsed to
\* and fileNames is what the split of the last item gives, one empty name for
\* an empty item
DatasetLine(first, name, crossSection, kFactor, fileNames) ==
    [ first |-> first, name |-> name, crossSection |-> crossSection, kFactor |-> kFactor,
      fileNames |-> fileNames ]

\* readDatasetsFromTextFile / readPhysicsProcessesFromFile, lines 1481 and
\* 1507: blank lines and lines that start with '#' or '/' are left out
Skipped(line) == line.first \in {"", "#", "/"}

\* Dataset.fromString( line ) of a line with its seven items, among the
\* objects st: the dataset constructed in slot n
Dataset_fromString(st, n, line) ==
    newDataset(st, n, Dataset_init(n, line.name, line.fileNames, line.crossSection,
                                   line.kFactor, defaultHistogramStore(st.cfg)))

\* n = Dataset.fromString( line )
DatasetFromString(n, line) ==
    \E r \in { Dataset_fromString(Objects, n, line) } :
        /\ n \notin DOMAIN cfg /\ n \notin Processes
        /\ Became(r)
        /\ last' = [NoOperation EXCEPT !.op = "Dataset.fromString", !.s = n,
                        !.registered = TRUE, !.objects = << n >>,
                        !.registrations = r.registrations,
                        !.warned = Warned(r.registrations)]

\* readDatasetsFromTextFile( fileName ) of a file with the lines from the i-th
\* on, among the objects st: a dataset is constructed from every line that
\* is not left out, in the free slots in order
RECURSIVE readDatasetsFromTextFile(_, _, _, _)
readDatasetsFromTextFile(st, slots, lines, i) ==
    IF i > Len(lines) THEN [st |-> st, objects |-> <<>>]
    ELSE IF Skipped(lines[i]) THEN readDatasetsFromTextFile(st, slots, lines, i + 1)
    ELSE LET rest == readDatasetsFromTextFile(Dataset_fromString(st, Head(slots), lines[i]),
                                              Tail(slots), lines, i + 1)
         IN  [rest EXCEPT !.objects = << Head(slots) >> \o @]

\* the slots are free and there is one for every object to construct
FreeSlots(slots, needed) ==
    /\ Len(slots) = needed
    /\ \A i \in 1..Len(slots) : slots[i] \notin DOMAIN cfg
    /\ \A i, j \in 1..Len(slots) : i # j => slots[i] # slots[j]

\* datasets = readDatasetsFromTextFile( fileName )
ReadDatasetsFromTextFile(slots, lines) ==
    /\ FreeSlots(slots, Len(SelectSeq(lines, LAMBDA line : ~Skipped(line))))
    /\ \A i \in 1..Len(slots) : slots[i] \notin Processes
    /\ \E r \in { readDatasetsFromTextFile(Objects, slots, lines, 1) } :
        /\ Became(r.st)
        /\ last' = [NoOperation EXCEPT !.op = "readDatasetsFromTextFile",
                        !.registered = r.objects # <<>>, !.objects = r.objects,
                        !.registrations = r.st.registrations,
                        !.warned = Warned(r.st.registrations)]

\* an attribute an XML element does not have, for a text and for a number
NoAttribute == "absent"
NoNumber == -1

\* an XML element <Dataset name isData crossSection kFactor weightExpression
\* dsid> with its File elements and the cuts of AddCuts and IgnoreCuts, or an
\* element <PhysicsProcess name isData kFactor> with its Dataset and
\* PhysicsProcess elements
Element(name, isData, crossSection, kFactor, weightExpression, dsid, files, addCuts,
        ignoreCuts, datasets, processes) ==
    [ name |-> name, isData |-> isData, crossSection |-> crossSection, kFactor |-> kFactor,
      weightExpression |-> weightExpression, dsid |-> dsid, files |-> files,
      addCuts |-> addCuts, ignoreCuts |-> ignoreCuts,
      datasets |-> datasets, processes |-> processes ]

\* string2bool
string2bool(text) == text = "true"

\* Dataset.fromXML( element ) among the objects st: the dataset registered
\* under the name of the element if there is one, whatever else the element
\* says; else a dataset constructed in slot n with the defaults, on which
\* the attributes of the element are set and to which its files and cuts
\* are appended
Dataset_fromXML(st, n, element) ==
    IF element.name \in DOMAIN st.DATASETS
    THEN [st |-> st, dataset |-> st.DATASETS[element.name], made |-> FALSE]
    ELSE LET c == Dataset_init(n, element.name, <<>>, 1, 1, defaultHistogramStore(st.cfg))
             isData == [c EXCEPT !.isData = IF element.isData = NoAttribute THEN @
                                            ELSE string2bool(element.isData)]
             crossed == IF element.crossSection = NoNumber THEN isData
                        ELSE [isData EXCEPT
                                 !.crossSection = element.crossSection,
                                 !.scaleFactors = Put(@, "crossSection", element.crossSection)]
             scaled == IF element.kFactor = NoNumber THEN crossed
                       ELSE [crossed EXCEPT
                                !.kFactor = element.kFactor,
                                !.scaleFactors = Put(@, "kFactor", element.kFactor)]
             weighted == [scaled EXCEPT !.weightExpression = element.weightExpression]
             known == IF element.dsid = NoNumber THEN weighted
                      ELSE setDsid(weighted, element.dsid)
         IN  [st |-> [newDataset(st, n, c) EXCEPT !.cfg[n] =
                         [known EXCEPT !.fileList = element.files,
                                       !.nFiles = Len(FilesOf(element.files)),
                                       !.addCuts = element.addCuts,
                                       !.ignoreCuts = element.ignoreCuts]],
              dataset |-> n, made |-> TRUE]

\* dataset = Dataset.fromXML( element )
DatasetFromXML(n, element) ==
    \E r \in { Dataset_fromXML(Objects, n, element) } :
        /\ n \notin DOMAIN cfg /\ n \notin Processes
        /\ Became(r.st)
        /\ last' = [NoOperation EXCEPT !.op = "Dataset.fromXML", !.s = r.dataset,
                        !.name = element.name,
                        !.registered = r.made, !.objects = << r.dataset >>,
                        !.registrations = r.st.registrations,
                        !.warned = Warned(r.st.registrations)]

\* c = n.copy( name, title ) of a dataset or a process: a shallow copy that
\* gets its own openTrees dictionary (of the same tree objects), scaleFactors,
\* fileNames, ignoreCuts, addCuts and systematicsSet; _hashFileNames and
\* treeEntryLists stay the objects of the original.  The name setter registers
\* the copy in the registry of its class unless the name given is the very
\* string object the name of the original is.
Copy(n, c, name, identical) ==
    \E r \in { IF identical THEN Objects ELSE register(Objects, c, name, cfg[n].name) } :
        /\ n \in DOMAIN cfg /\ c \notin DOMAIN cfg
        /\ n \in Processes <=> c \in Processes
        /\ identical => name = cfg[n].name
        /\ name # cfg[n].name => ~identical
        /\ cfg' = Put(cfg, c, [cfg[n] EXCEPT !.name = name])
        /\ openTrees' = IF n \in Processes THEN openTrees ELSE Put(openTrees, c, openTrees[n])
        /\ DATASETS' = r.DATASETS
        /\ PHYSICSPROCESSES' = r.PHYSICSPROCESSES
        /\ last' = [NoOperation EXCEPT !.op = "copy", !.s = c, !.registered = ~identical,
                        !.objects = << c >>,
                        !.registrations = r.registrations,
                        !.warned = Warned(r.registrations)]
        /\ UNCHANGED << store, treeEntryLists >>

\* PhysicsProcess( name, title, style, kFactor, isData, isSignal, isBSMSignal,
\* datasets ): isData is recorded as the truth value of what was passed for it
PhysicsProcess_init(p, name, kFactor, isData, datasets) ==
    [Construct(p, FALSE) EXCEPT !.name = name, !.kFactor = kFactor,
                                !.scaleFactors = [k \in {"kFactor"} |-> kFactor],
                                !.isData = isData, !.datasets = datasets]

\* the constructor of a process run among the objects st
newProcess(st, p, c) == register([st EXCEPT !.cfg = Put(@, p, c)], p, c.name, NoName)

\* PhysicsProcess.fromString, lines 1092-1101: the datasets registered under
\* the names of the line from its i-th name on, and the names not registered;
\* an empty name is left out
RECURSIVE resolve(_, _, _)
resolve(reg, datasetStrings, i) ==
    IF i > Len(datasetStrings) THEN [datasets |-> <<>>, errors |-> <<>>]
    ELSE LET rest == resolve(reg, datasetStrings, i + 1)
             datasetName == datasetStrings[i]
         IN  IF datasetName = "" THEN rest
             ELSE IF datasetName \in DOMAIN reg
             THEN [rest EXCEPT !.datasets = << reg[datasetName] >> \o @]
             ELSE [rest EXCEPT !.errors = << datasetName >> \o @]

\* PhysicsProcess.fromString( 'name; title; color; kFactor; d1, d2' ) among
\* the objects st: line 1102 passes the datasets found as the fifth
\* positional argument, which is isData, and no datasets
PhysicsProcess_fromString(st, p, name, kFactor, datasetStrings) ==
    LET r == resolve(st.DATASETS, datasetStrings, 1)
    IN  [st |-> newProcess(st, p, PhysicsProcess_init(p, name, kFactor,
                                                      r.datasets # <<>>, <<>>)),
         errors |-> r.errors]

\* p = PhysicsProcess.fromString( 'name; title; color; kFactor; d1, d2' )
FromString(p, name, kFactor, datasetStrings) ==
    \E r \in { PhysicsProcess_fromString(Objects, p, name, kFactor, datasetStrings) } :
        /\ p \in Processes /\ p \notin DOMAIN cfg
        /\ Became(r.st)
        /\ last' = [NoOperation EXCEPT !.op = "fromString", !.s = p, !.registered = TRUE,
                        !.objects = << p >>,
                        !.line = datasetStrings, !.errors = r.errors,
                        !.registrations = r.st.registrations,
                        !.warned = Warned(r.st.registrations)]

\* a line of a text file of processes, 'name; title; color; kFactor; d1, d2'
ProcessLine(first, name, kFactor, datasetStrings) ==
    [ first |-> first, name |-> name, kFactor |-> kFactor,
      datasetStrings |-> datasetStrings ]

\* readPhysicsProcessesFromFile( fileName ) of a file with the lines from the
\* i-th on, among the objects st: a process is constructed from every line
\* that is not left out, in the free slots in order
RECURSIVE readPhysicsProcessesFromFile(_, _, _, _)
readPhysicsProcessesFromFile(st, slots, lines, i) ==
    IF i > Len(lines) THEN [st |-> st, objects |-> <<>>, errors |-> <<>>]
    ELSE IF Skipped(lines[i]) THEN readPhysicsProcessesFromFile(st, slots, lines, i + 1)
    ELSE LET made == PhysicsProcess_fromString(st, Head(slots), lines[i].name,
                                               lines[i].kFactor, lines[i].datasetStrings)
             rest == readPhysicsProcessesFromFile(made.st, Tail(slots), lines, i + 1)
         IN  [rest EXCEPT !.objects = << Head(slots) >> \o @,
                          !.errors = made.errors \o @]

\* physicsProcesses = readPhysicsProcessesFromFile( fileName )
ReadPhysicsProcessesFromFile(slots, lines) ==
    /\ FreeSlots(slots, Len(SelectSeq(lines, LAMBDA line : ~Skipped(line))))
    /\ \A i \in 1..Len(slots) : slots[i] \in Processes
    /\ \E r \in { readPhysicsProcessesFromFile(Objects, slots, lines, 1) } :
        /\ Became(r.st)
        /\ last' = [NoOperation EXCEPT !.op = "readPhysicsProcessesFromFile",
                        !.registered = r.objects # <<>>, !.objects = r.objects,
                        !.errors = r.errors,
                        !.registrations = r.st.registrations,
                        !.warned = Warned(r.st.registrations)]

\* PhysicsProcess.fromXML, lines 1135-1138: the daughters of the process, the
\* datasets Dataset.fromXML gives for the elements from the i-th on; a
\* dataset that is constructed takes the first free slot
RECURSIVE daughtersFromXML(_, _, _, _)
daughtersFromXML(st, slots, elements, i) ==
    IF i > Len(elements) THEN [st |-> st, datasets |-> <<>>]
    ELSE LET r == Dataset_fromXML(st, IF slots = <<>> THEN NoName ELSE Head(slots),
                                  elements[i])
             rest == daughtersFromXML(r.st, IF r.made THEN Tail(slots) ELSE slots,
                                      elements, i + 1)
         IN  [rest EXCEPT !.datasets = << r.dataset >> \o @]

\* PhysicsProcess.fromXML( element ) among the objects st: the process
\* registered under the name of the element if there is one; else a process
\* constructed in slot p with the attributes of the element, whose daughters
\* are the datasets of its Dataset elements followed by those of its
\* PhysicsProcess elements, each of them read by Dataset.fromXML
PhysicsProcess_fromXML(st, p, slots, element) ==
    IF element.name \in DOMAIN st.PHYSICSPROCESSES
    THEN [st |-> st, process |-> st.PHYSICSPROCESSES[element.name], made |-> FALSE]
    ELSE LET c == PhysicsProcess_init(p, element.name, 1, FALSE, <<>>)
             isData == [c EXCEPT !.isData = IF element.isData = NoAttribute THEN @
                                            ELSE string2bool(element.isData)]
             scaled == IF element.kFactor = NoNumber THEN isData
                       ELSE [isData EXCEPT !.kFactor = element.kFactor,
                                           !.scaleFactors = Put(@, "kFactor", element.kFactor)]
             d == daughtersFromXML(newProcess(st, p, c), slots,
                                   element.datasets \o element.processes, 1)
         IN  [st |-> [d.st EXCEPT !.cfg[p] = [scaled EXCEPT !.datasets = d.datasets,
                                                            !.addCuts = element.addCuts,
                                                            !.ignoreCuts = element.ignoreCuts]],
              process |-> p, made |-> TRUE]

\* process = PhysicsProcess.fromXML( element )
ProcessFromXML(p, slots, element) ==
    /\ p \in Processes /\ p \notin DOMAIN cfg
    /\ \A i \in 1..Len(slots) : slots[i] \notin Processes
    /\ FreeSlots(slots, IF element.name \in DOMAIN PHYSICSPROCESSES THEN 0
                         ELSE Cardinality(
                                  { (element.datasets \o element.processes)[i].name :
                                      i \in 1..Len(element.datasets \o element.processes) }
                                  \ DOMAIN DATASETS))
    /\ \E r \in { PhysicsProcess_fromXML(Objects, p, slots, element) } :
        /\ Became(r.st)
        /\ last' = [NoOperation EXCEPT !.op = "PhysicsProcess.fromXML", !.s = r.process,
                        !.name = element.name,
                        !.registered = r.made, !.objects = << r.process >>,
                        !.registrations = r.st.registrations,
                        !.warned = Warned(r.st.registrations)]

\* Dataset.crossSection / PhysicsProcess.crossSection (getter): a process sums
\* the cross sections of its daughters
RECURSIVE crossSection(_, _)
RECURSIVE CrossSectionFrom(_, _, _)
crossSection(cfgs, n) ==
    IF n \in Processes THEN CrossSectionFrom(cfgs, cfgs[n].datasets, 1)
    ELSE cfgs[n].crossSection

CrossSectionFrom(cfgs, datasets, i) ==
    IF i > Len(datasets) THEN 0
    ELSE crossSection(cfgs, datasets[i]) + CrossSectionFrom(cfgs, datasets, i + 1)

\* (mutant) the cross section is set without the entry in scaleFactors
SetCrossSectionOnly(n, value) ==
    /\ n \in DOMAIN cfg
    /\ cfg' = IF n \in Processes THEN cfg ELSE [cfg EXCEPT ![n].crossSection = value]
    /\ last' = [NoOperation EXCEPT !.op = "crossSection", !.s = n,
                    !.warned = n \in Processes,
                    !.value = RInt(crossSection(cfg', n))]
    /\ UNCHANGED << store, openTrees, treeEntryLists, DATASETS, PHYSICSPROCESSES >>

\* (mutant) a process keeps the cross section it is given like a dataset does
SetCrossSectionOfAny(n, value) ==
    /\ n \in DOMAIN cfg
    /\ cfg' = [cfg EXCEPT ![n].scaleFactors = Put(@, "crossSection", value),
                           ![n].crossSection = value]
    /\ last' = [NoOperation EXCEPT !.op = "crossSection", !.s = n,
                    !.warned = n \in Processes,
                    !.value = RInt(crossSection(cfg', n))]
    /\ UNCHANGED << store, openTrees, treeEntryLists, DATASETS, PHYSICSPROCESSES >>

\* n.crossSection = value: kept in scaleFactors by a dataset, refused with a
\* warning by a process
SetCrossSection(n, value) ==
    /\ n \in DOMAIN cfg
    /\ cfg' = IF n \in Processes THEN cfg
              ELSE [cfg EXCEPT ![n].scaleFactors = Put(@, "crossSection", value),
                               ![n].crossSection = value]
    /\ last' = [NoOperation EXCEPT !.op = "crossSection", !.s = n,
                    !.warned = n \in Processes,
                    !.value = RInt(crossSection(cfg', n))]
    /\ UNCHANGED << store, openTrees, treeEntryLists, DATASETS, PHYSICSPROCESSES >>

\* n.dsid = dsid: cross section, k-factor, branching ratio and filter
\* efficiency are taken from the database; a process raises
SetDsid(n, dsid) ==
    /\ n \in DOMAIN cfg
    /\ cfg' = IF n \in Processes THEN cfg ELSE [cfg EXCEPT ![n] = setDsid(@, dsid)]
    /\ last' = [NoOperation EXCEPT !.op = "dsid", !.s = n,
                    !.raised = n \in Processes,
                    !.warned = n \notin Processes /\ dsid # 0 /\ dsid \notin KnownDsids]
    /\ UNCHANGED << store, openTrees, treeEntryLists, DATASETS, PHYSICSPROCESSES >>

\* n.kFactor = value
SetKFactor(n, value) ==
    /\ cfg' = [cfg EXCEPT ![n].scaleFactors = Put(@, "kFactor", value),
                           ![n].kFactor = value]
    /\ last' = [NoOperation EXCEPT !.op = "kFactor", !.s = n]
    /\ UNCHANGED << store, openTrees, treeEntryLists, DATASETS, PHYSICSPROCESSES >>

RECURSIVE setWeightExpression(_, _, _)
RECURSIVE setWeightExpressionOfAll(_, _, _, _)

\* the setter called on the daughters of a process, in order
setWeightExpressionOfAll(cfgs, datasets, i, expression) ==
    IF i > Len(datasets) THEN cfgs
    ELSE setWeightExpressionOfAll(setWeightExpression(cfgs, datasets[i], expression),
                                  datasets, i + 1, expression)

\* the weightExpression setter: a dataset keeps the expression; a process
\* hands it to every daughter (what it keeps itself no getter reads: its
\* weightExpression is None whatever was set)
setWeightExpression(cfgs, n, expression) ==
    IF n \in Processes
    THEN setWeightExpressionOfAll(cfgs, cfgs[n].datasets, 1, expression)
    ELSE [cfgs EXCEPT ![n].weightExpression = expression]

\* n.weightExpression = expression
SetWeightExpression(n, expression) ==
    /\ cfg' = setWeightExpression(cfg, n, expression)
    /\ last' = [NoOperation EXCEPT !.op = "weightExpression", !.s = n]
    /\ UNCHANGED << store, openTrees, treeEntryLists, DATASETS, PHYSICSPROCESSES >>

\* n.sumOfWeights = value; the setter of a process does nothing
SetSumOfWeights(n, value) ==
    /\ cfg' = IF n \in Processes THEN cfg ELSE [cfg EXCEPT ![n].sumOfWeights = value]
    /\ last' = [NoOperation EXCEPT !.op = "sumOfWeights", !.s = n]
    /\ UNCHANGED << store, openTrees, treeEntryLists, DATASETS, PHYSICSPROCESSES >>

\* ------------------------------------------- the cache of a leaf dataset
Luminosities == 1..MaxLumi
Cuts == { EmptyCut, {"a"} }

CacheQueries ==
    { Query("x", cut, NoWeight, lumi, recreate, NoVariation, {}, FALSE, FALSE) :
        cut \in Cuts, lumi \in Luminosities, recreate \in BOOLEAN }

Next == \E n \in {"s1", "s3", "d1"}, q \in CacheQueries : GetHistogram(n, q)

Spec == Init /\ [][Next]_vars

\* ------------------------------------------------------------ C1 .. C3
LastIsLeafHistogram == last.op = "getHistogram" /\ last.s \in Leaves

\* C1: with a histogram store, a getHistogram call that repeats the call
\* before it (same dataset, same arguments, recreate = false) returns the
\* same bin contents and neither opens a tree nor creates a histogram from one.
C1_CacheIdempotence ==
    (LastIsLeafHistogram /\ cfg[last.s].histogramStore /\ last.again /\ ~last.q.recreate)
        => /\ last.hist = last.before
           /\ last.log.scans = 0
           /\ last.log.opens = 0

\* the repeated call was served from the store and returned a filled histogram
C1_Witness ==
    /\ LastIsLeafHistogram /\ cfg[last.s].histogramStore /\ last.again /\ ~last.q.recreate
    /\ last.log.gets = 1 /\ last.log.scans = 0
    /\ last.hist # NoHist /\ HistIntegral(last.hist, 0, Len(last.hist) - 1) # RZero

\* C2: every getHistogram call of a dataset with recreate = true creates the
\* histogram from the tree exactly once, whatever the store holds and whether
\* or not there is a store.
C2_RecreateScansOnce ==
    (LastIsLeafHistogram /\ last.q.recreate) => last.log.scans = 1

\* a recreate call made while the store already held the histogram of its key
C2_Witness ==
    /\ LastIsLeafHistogram /\ last.q.recreate /\ last.again
    /\ cfg[last.s].histogramStore /\ last.log.gets = 1 /\ last.log.scans = 1

\* C3 (as claimed): a getHistogram call with recreate = true does not read the
\* store, and afterwards the store holds the freshly created histogram under
\* the key of the call.
C3_RecreateBypassesGet ==
    (LastIsLeafHistogram /\ last.q.recreate /\ cfg[last.s].histogramStore)
        => /\ last.log.gets = 0
           /\ last.log.puts = 1
           /\ storeGet(store, StoreKey(last.s, storeVariation(last.log.variation),
                                       determineVariable(cfg[last.s], last.q.xVar),
                                       last.log.cut)) = last.log.put

\* ------------------------------------- normalisation of a leaf dataset
Scales == 1..MaxScale
Shapings == { << FALSE, FALSE >>, << TRUE, FALSE >>, << FALSE, TRUE >> }

NormQueries ==
    { Query("x", EmptyCut, NoWeight, lumi, recreate, NoVariation, {}, sh[1], sh[2]) :
        lumi \in Luminosities, recreate \in BOOLEAN, sh \in Shapings }

YieldQueries ==
    { Query("x", EmptyCut, NoWeight, lumi, FALSE, NoVariation, {}, FALSE, FALSE) :
        lumi \in Luminosities }

NextNorm ==
    \/ \E n \in {"s1", "d1"}, q \in NormQueries : GetHistogram(n, q)
    \/ \E n \in {"s1", "d1"}, q \in YieldQueries : GetYield(n, q)
    \/ \E value \in Scales : SetKFactor("s1", value)
    \/ \E value \in {1, 2} : SetSumOfWeights("d1", value)

SpecNorm == Init /\ [][NextNorm]_vars

\* ------------------------------------------------------------ C4, C7
LastIsLeafResult == last.op \in {"getHistogram", "getYield"} /\ last.s \in Leaves

\* the arguments getHistogram ran with in the last operation
LastQuery == IF last.op = "getYield" THEN yieldQuery(last.q) ELSE last.q

\* the histogram of the nominal tree of dataset s under the dataset's weight
NominalScan(s, xVar, cut) ==
    createHistogramFromTree(Tree(NominalTree, TreeRows(s, NominalTree), cfg[s].preselection),
                            xVar, cut, cfg[s].weightExpression)

\* rebinning and overflow folding as the query asks for them
Shaped(q, h, xVar) ==
    LET forced == IF q.forceBinning THEN forceBinning(h, xVar) ELSE h
    IN  IF q.includeOverflowBins THEN overflowIntoLastBins(forced) ELSE forced

\* the factor a query applies on its own: scale factors, and luminosity if simulated
OwnFactor(s, q) ==
    RMul(combinedScaleFactors(cfg[s]), IF cfg[s].isData THEN ROne ELSE RInt(q.luminosity))

\* C4: the histogram getHistogram puts into the store is the scan divided by
\* the sum of weights (simulation only), a value in which luminosity, scale
\* factors, overflow folding and forced binning do not occur; and every
\* returned histogram is the stored one, shaped and scaled by the factor of
\* the query that returns it.
C4_CachedValueUnscaled ==
    (LastIsLeafResult /\ cfg[last.s].histogramStore) =>
        LET q == LastQuery
            c == cfg[last.s]
            cached == storeGet(store, StoreKey(last.s, "nominal", q.xVar, q.cut))
        IN  /\ last.log.puts = 1 =>
                   last.log.put = normalise(c, last.s, NominalScan(last.s, q.xVar, q.cut))
            /\ cached # NoHist
            /\ last.hist = blind(c, q.xVar, q.cut,
                                 HistScale(Shaped(q, cached, q.xVar), OwnFactor(last.s, q)))

\* a simulated histogram served from the store at luminosity 2, k-factor 2 and
\* with the overflow folded in, which differs from the stored one
C4_Witness ==
    /\ last.op = "getHistogram" /\ last.s = "s1" /\ cfg["s1"].histogramStore
    /\ last.log.scans = 0 /\ last.log.gets = 1
    /\ last.q.luminosity = 2 /\ cfg["s1"].scaleFactors["kFactor"] = 2
    /\ last.q.includeOverflowBins
    /\ last.hist # storeGet(store, StoreKey("s1", "nominal", "x", EmptyCut))
    /\ storeGet(store, StoreKey("s1", "nominal", "x", EmptyCut))
           = HistScale(NominalScan("s1", "x", EmptyCut), Rat(1, sumOfWeights(cfg["s1"], "s1")))

\* C7: the histogram and the yield of a real-data dataset are the scan of its
\* tree times its scale factors, shaped as the query asks and blinded: neither
\* the luminosity nor the sum of weights occurs in them.  With unit scale
\* factors and unit weights the yield is the number of selected rows.
C7_DataNotNormalised ==
    (LastIsLeafResult /\ cfg[last.s].isData) =>
        LET q == LastQuery
            c == cfg[last.s]
            tree == Tree(NominalTree, TreeRows(last.s, NominalTree), c.preselection)
        IN  /\ last.hist = applyBlinding(q.xVar, q.cut,
                               HistScale(Shaped(q, NominalScan(last.s, q.xVar, q.cut), q.xVar),
                                         combinedScaleFactors(c)))
            /\ (last.op = "getYield" /\ combinedScaleFactors(c) = ROne)
                   => last.value = RInt(CountFrom(1, tree, q.cut))

\* a yield of real data asked for at luminosity 2 after the sum of weights was
\* set to 2: it is the number of rows of the tree
C7_Witness ==
    /\ last.op = "getYield" /\ last.s = "d1" /\ cfg["d1"].isData
    /\ last.q.luminosity = 2 /\ cfg["d1"].sumOfWeights = 2
    /\ last.log.scans = 1
    /\ last.value = RInt(Len(TreeRows("d1", NominalTree)))
    /\ last.value # RZero

\* --------------------------------------- systematics of a leaf dataset
OwnSets == { {}, {"weightSys"}, {"shapeSys", "scaleSys"} }
ExtraSets == { {}, {"weightSys"}, {"shapeSys"} }
Requests == { NoVariation, "shapeUp", "weightUp", "scaleUp" }

SystQueries ==
    { Query("x", EmptyCut, NoWeight, 1, recreate, variation, extra, FALSE, FALSE) :
        recreate \in BOOLEAN, variation \in Requests, extra \in ExtraSets }

SystYieldQueries ==
    { Query("x", EmptyCut, NoWeight, lumi, FALSE, variation, {}, FALSE, FALSE) :
        lumi \in Luminosities, variation \in { NoVariation, "weightUp" } }

NextSyst ==
    \/ \E q \in SystQueries : GetHistogram("s1", q)
    \/ \E q \in SystYieldQueries : GetYield("s1", q)
    \/ \E q \in { x \in SystQueries : ~x.recreate } : GetValues("s1", q)
    \/ \E q \in { x \in SystQueries : ~x.recreate } : GetHistogram2D("s1", q)
    \/ \E value \in OwnSets : SetSystematicsSet("s1", value)
    \/ AddSystematics("s1", "weightSys")
    \/ RemoveSystematics("s1", "weightSys")

SpecSyst == Init /\ [][NextSyst]_vars

\* ------------------------------------------------------- C5, C6, C10
\* the variation the last operation asked for, and the set it is looked up in
LastRequest == requestedVariation(last.q)
LastEffectiveSet == effectiveSystematics(cfg[last.s], last.q)

\* C5 (as claimed): a getHistogram call for a weight-only variation whose
\* systematics is in the effective set, served from a store entry that a
\* nominal query wrote, returns the histogram the same call creates from the
\* tree with recreate = true.
C5_WeightReappliedAfterRetrieval ==
    ( /\ LastIsLeafHistogram /\ cfg[last.s].histogramStore /\ ~last.q.recreate
      /\ LastRequest # "nominal" /\ ~IsShapeSystematics(LastRequest)
      /\ VarSystematics(LastRequest) \in LastEffectiveSet
      /\ last.log.scans = 0
      /\ storeGet(store, StoreKey(last.s, "nominal", last.q.xVar, last.q.cut))
             = normalise(cfg[last.s], last.s, NominalScan(last.s, last.q.xVar, last.q.cut)) )
        => last.hist = getHistogram(Now, cfg, last.s, [last.q EXCEPT !.recreate = TRUE]).hist

\* the sum of all bins of a histogram, underflow and overflow included
Total(h) == HistIntegral(h, 0, Len(h) - 1)

\* scan_yield / sumOfWeights x scale factors x luminosity of a nominal query
ExpectedYield(s, q) ==
    RMul(RMul(Total(NominalScan(s, "yield", q.cut)), Rat(1, sumOfWeights(cfg[s], s))),
         RMul(combinedScaleFactors(cfg[s]), RInt(q.luminosity)))

\* C6 (as claimed): for a simulated dataset with a nonzero sum of weights and a
\* query of the nominal variation, the integral of getHistogram and the value
\* of getYield are scan_yield / sumOfWeights x scale factors x luminosity,
\* whether the histogram is created or read from the store.
C6_IntegralIsNormalisedYield ==
    ( /\ LastIsLeafResult /\ ~cfg[last.s].isData
      /\ sumOfWeights(cfg[last.s], last.s) # 0
      /\ LastRequest = "nominal" )
        => /\ last.hist # NoHist
           /\ Total(last.hist) = ExpectedYield(last.s, last.q)
           /\ last.op = "getYield" => last.value = ExpectedYield(last.s, last.q)

LastIsLeafQuery ==
    last.op \in {"getHistogram", "getValues", "getHistogram2D"} /\ last.s \in Leaves

\* C10 (as claimed): in getHistogram, getValues and getHistogram2D the tree is
\* opened for the nominal variation exactly when the systematics of the
\* requested variation is not in the effective set, and for the requested
\* variation otherwise.
C10_DemotedExactlyWhenAbsent ==
    LastIsLeafQuery =>
        LET used == IF VarSystematics(LastRequest) \in LastEffectiveSet
                    THEN LastRequest ELSE "nominal"
        IN  /\ last.log.variation = used
            /\ last.log.opens > 0 =>
                   last.log.trees = << IF VarTreeName(used) = NoTree
                                       THEN NominalTree ELSE VarTreeName(used) >>

\* ------------------------------------------------ processes of datasets
ProcQueries ==
    { Query("x", cut, NoWeight, lumi, FALSE, NoVariation, {}, FALSE, FALSE) :
        cut \in Cuts, lumi \in Luminosities }

NextProc ==
    \/ \E p \in {"P1", "P2"}, q \in ProcQueries : GetHistogram(p, q)
    \/ \E p \in {"P1", "P2"}, q \in YieldQueries : GetYield(p, q)
    \/ \E p \in {"P1", "P2"}, value \in Scales : SetKFactor(p, value)

SpecProc == Init /\ [][NextProc]_vars

\* ------------------------------------------------------------------ C8
LastIsProcessResult == last.op \in {"getHistogram", "getYield"} /\ last.s \in Processes

\* the histogram a leaf dataset returns for a nominal query: its scan, divided
\* by the sum of weights and scaled to the luminosity if simulated, times its
\* own scale factors
LeafReference(l, q) ==
    blind(cfg[l], q.xVar, q.cut,
          HistScale(Shaped(q, normalise(cfg[l], l, NominalScan(l, q.xVar, q.cut)), q.xVar),
                    OwnFactor(l, q)))

\* the bin-wise sum of the histograms the daughters return for the query
RECURSIVE SumOfDaughters(_, _, _)
SumOfDaughters(datasets, i, q) ==
    IF i > Len(datasets) THEN NoHist
    ELSE merge(getHistogram(Now, cfg, datasets[i], q).hist,
               SumOfDaughters(datasets, i + 1, q))

\* the sum over the leaves below n of the leaf's histogram times factor f times
\* the scale factors of every process on the path from n down to the leaf
RECURSIVE Expansion(_, _, _)
RECURSIVE ExpansionFrom(_, _, _, _)
Expansion(n, q, f) ==
    IF n \in Processes
    THEN ExpansionFrom(cfg[n].datasets, 1, q, RMul(f, combinedScaleFactors(cfg[n])))
    ELSE HistScale(LeafReference(n, q), f)

ExpansionFrom(datasets, i, q, f) ==
    IF i > Len(datasets) THEN NoHist
    ELSE merge(Expansion(datasets[i], q, f), ExpansionFrom(datasets, i + 1, q, f))

\* C8: the histogram of a process is the bin-wise sum of the histograms of its
\* daughters times the combined scale factors of the process, once; expanded
\* down to the leaves, every leaf's histogram (which carries the luminosity
\* once if the leaf is simulated) is multiplied once by the scale factors of
\* each process above it; the yield of the process is the sum of that histogram.
C8_ProcessSumsThenScalesOnce ==
    LastIsProcessResult =>
        LET q == LastQuery
            c == cfg[last.s]
        IN  /\ last.hist # NoHist
            /\ last.hist = HistScale(SumOfDaughters(c.datasets, 1, daughterQuery(c, q)),
                                     combinedScaleFactors(c))
            /\ last.hist = Expansion(last.s, q, ROne)
            /\ last.op = "getYield" => last.value = Total(Expansion(last.s, q, ROne))

\* the three-level process P2 (P2 over P1 over s1, s2) asked at luminosity 2
\* with k-factor 2 on both processes: a filled histogram
C8_Witness ==
    /\ last.op = "getHistogram" /\ last.s = "P2"
    /\ cfg["P2"].datasets = << "P1", "d1" >> /\ cfg["P1"].datasets = << "s1", "s2" >>
    /\ cfg["P2"].scaleFactors["kFactor"] = 2 /\ cfg["P1"].scaleFactors["kFactor"] = 2
    /\ last.q.luminosity = 2
    /\ Total(last.hist) # RZero
    /\ getHistogram(Now, cfg, "P1", last.q).hist # NoHist
    /\ last.hist # getHistogram(Now, cfg, "P1", last.q).hist

\* ------------------------------------------------- the cut of a query
MaxCuts == 2
GivenCuts == SUBSET Atoms
ListedCuts == GivenCuts \ { EmptyCut }

NextCut ==
    \/ \E cut \in GivenCuts : DetermineCut("s1", cut)
    \/ \E cut \in ListedCuts : Len(cfg["s1"].addCuts) < MaxCuts /\ AppendAddCut("s1", cut)
    \/ \E cut \in ListedCuts : Len(cfg["s1"].ignoreCuts) < MaxCuts /\ AppendIgnoreCut("s1", cut)
    \/ \E cut \in { EmptyCut, {"b"} } : SetPreselection("s1", cut)

SpecCut == InitPlain /\ [][NextCut]_vars

\* ------------------------------------------------------------------ C9
LastIsDetermineCut == last.op = "determineCut"

Listed(cuts) == { cuts[i] : i \in 1..Len(cuts) }

\* C9 (as claimed): the preselection, the given cut and the added cuts are
\* combined first and the ignored cuts are removed from the combination, so
\* that a cut that is both added and ignored is not in the result.
C9_CombinedThenExcluded ==
    LastIsDetermineCut =>
        LET c == cfg[last.s]
        IN  /\ last.log.cut = WithoutAll(AddAll(CutAnd(c.preselection, last.q.cut), c.addCuts, 1),
                                         c.ignoreCuts, 1)
            /\ \A cut \in Listed(c.addCuts) \cap Listed(c.ignoreCuts) :
                   ~(cut \subseteq last.log.cut)

\* C9 (amended): the ignored cuts are removed from the given cut first and the
\* added cuts are appended afterwards, the preselection taking no part: every
\* added cut is in the result, also one that is ignored as well; everything
\* else in the result comes from the given cut, and what is missing of the
\* given cut is part of an ignored cut.
C9_ExcludedThenInjected ==
    LastIsDetermineCut =>
        LET c == cfg[last.s]
            added == UNION Listed(c.addCuts)
        IN  /\ last.log.cut = AddAll(WithoutAll(last.q.cut, c.ignoreCuts, 1), c.addCuts, 1)
            /\ \A cut \in Listed(c.addCuts) : cut \subseteq last.log.cut
            /\ last.log.cut \subseteq (last.q.cut \cup added)
            /\ \A a \in last.q.cut \ last.log.cut : \E cut \in Listed(c.ignoreCuts) : a \in cut

\* a cut that is given, added and ignored is in the result, while another
\* ignored part of the given cut and the preselection are not
C9_Witness ==
    /\ LastIsDetermineCut
    /\ {"a"} \in Listed(cfg[last.s].addCuts) \cap Listed(cfg[last.s].ignoreCuts)
    /\ last.q.cut = {"a", "b"}
    /\ cfg[last.s].preselection = {"b"}
    /\ last.log.cut = {"a"}

\* ---------------------------------------- samples without data
\* s3 has no input files, P0 has no daughters, P3 groups s1, P0 and s3
NextFail ==
    \/ \E n \in {"s3", "P0", "P3"}, q \in CacheQueries : GetHistogram(n, q)
    \/ \E n \in {"s3", "P0", "P3"}, q \in YieldQueries : GetYield(n, q)
    \/ \E n \in {"s3", "P0", "P3"}, q \in YieldQueries : GetValues(n, q)
    \/ \E value \in Scales : SetKFactor("P3", value)
    \/ \E n \in {"s3", "P3"}, writable \in { {}, {"s1"}, {"s1", "s3"} } : Save(n, writable)

SpecFail == Init /\ [][NextFail]_vars

\* --------------------------------------------------------- C11 .. C13
\* C11 (as claimed): getHistogram of a dataset none of whose file patterns
\* matches a file, called while the store holds no histogram for the query,
\* returns no histogram and creates none from a tree.
C11_MissingSourceNoHistogram ==
    \A s \in Leaves, q \in CacheQueries :
        ( /\ cfg[s].nFiles = 0
          /\ storeGet(store, StoreKey(s, "nominal", q.xVar, q.cut)) = NoHist )
            => LET r == getHistogram(Now, cfg, s, q)
               IN  r.hist = NoHist /\ r.e.log.scans = 0

\* C12 (as claimed): getYield of a sample for which getHistogram yields no
\* histogram does not raise.
C12_YieldNeverRaises ==
    (last.op = "getYield" /\ last.hist = NoHist) => ~last.raised

\* the histograms the daughters of a process return, those without one left out
RECURSIVE PresentFrom(_, _, _)
PresentFrom(datasets, i, q) ==
    IF i > Len(datasets) THEN <<>>
    ELSE LET h == getHistogram(Now, cfg, datasets[i], q).hist
         IN  (IF h = NoHist THEN <<>> ELSE << h >>) \o PresentFrom(datasets, i + 1, q)

RECURSIVE AddUp(_, _)
AddUp(hists, n) == IF n = 1 THEN hists[1] ELSE HistAdd(AddUp(hists, n - 1), hists[n])

\* the values of the rows of the nominal tree of leaf l that pass the
\* preselection and the cut, each with the weight of the row times the scale
\* factors of the leaf, the luminosity if the leaf is simulated, and f
LeafValues(l, q, f) ==
    LET rows == SelectSeq(ChainRows(FilesOf(cfg[l].fileList), NominalTree),
                          LAMBDA r : cfg[l].preselection \subseteq r.sel /\ q.cut \subseteq r.sel)
    IN  [i \in 1..Len(rows) |->
            [value |-> ValueOf(rows[i], q.xVar),
             weight |-> RMul(RInt(WeightOf(rows[i], cfg[l].weightExpression)),
                             RMul(OwnFactor(l, q), f))]]

\* the values of the leaves below n in order, the weights times f and times
\* the scale factors of every process on the path from n down to the leaf
RECURSIVE ValuesBelow(_, _, _)
RECURSIVE ValuesBelowFrom(_, _, _, _)
ValuesBelow(n, q, f) ==
    IF n \in Processes
    THEN ValuesBelowFrom(cfg[n].datasets, 1, q, RMul(f, combinedScaleFactors(cfg[n])))
    ELSE LeafValues(n, q, f)

ValuesBelowFrom(datasets, i, q, f) ==
    IF i > Len(datasets) THEN <<>>
    ELSE ValuesBelow(datasets[i], q, f) \o ValuesBelowFrom(datasets, i + 1, q, f)

NextSum ==
    \/ \E n \in {"s1", "s2"}, q \in CacheQueries : GetHistogram(n, q)
    \/ \E n \in {"s1", "s2"}, q \in YieldQueries : GetYield(n, q)

SpecSum == Init /\ [][NextSum]_vars

\* ----------------------------------------------------------------- C14
\* C14 (as claimed): for a dataset whose sum of weights is not preset, a query
\* runs the calculator at most once, and a query that repeats the one before
\* it, which has computed a nonzero sum already, does not run it at all.
C14_SumOfWeightsMemoized ==
    ( /\ LastIsLeafResult
      /\ cfg[last.s].sumOfWeights = 0
      /\ calculate(cfg[last.s], last.s) # 0 )
        => /\ last.log.calcs <= 1
           /\ last.again => last.log.calcs = 0

\* -------------------------------------- cross section, k-factor and DSID
Dsids == 0..2

NextAttr ==
    \/ \E n \in {"s1", "c1", "P1"}, value \in Scales : SetCrossSection(n, value)
    \/ \E n \in {"s1", "P1"}, value \in Scales : SetKFactor(n, value)
    \/ \E n \in {"s1", "c1", "P1"}, dsid \in Dsids : SetDsid(n, dsid)
    \/ Copy("s1", "c1", "c1", FALSE)

SpecAttr == InitPlain /\ [][NextAttr]_vars

\* ------------------------------------------------------------ C15, C17
\* C15: scaleFactors of every dataset holds the entries crossSection and
\* kFactor, and they are the values of the properties crossSection and kFactor.
C15_ScaleFactorsInSync ==
    \A n \in DOMAIN cfg \ Processes :
        /\ {"crossSection", "kFactor"} \subseteq DOMAIN cfg[n].scaleFactors
        /\ cfg[n].scaleFactors["crossSection"] = crossSection(cfg, n)
        /\ cfg[n].scaleFactors["kFactor"] = cfg[n].kFactor

\* a copy whose cross section was set after the copy was made, next to its
\* original whose values come from the database
C15_Witness ==
    /\ "c1" \in DOMAIN cfg
    /\ last.op = "crossSection" /\ last.s = "c1"
    /\ cfg["s1"].dsid = 1 /\ cfg["s1"].scaleFactors["crossSection"] = 2
    /\ cfg["c1"].scaleFactors["crossSection"] = 1
    /\ "filterEfficiency" \in DOMAIN cfg["s1"].scaleFactors

\* C17: scaleFactors of a process holds its k-factor and nothing else, in
\* particular no cross section; after an attempt to set the cross section of a
\* process, which is reported, the cross section read from it is the sum of
\* the cross sections its daughters have.
C17_ProcessCrossSectionDerived ==
    /\ \A p \in Processes \cap DOMAIN cfg :
           /\ DOMAIN cfg[p].scaleFactors = {"kFactor"}
           /\ cfg[p].scaleFactors["kFactor"] = cfg[p].kFactor
    /\ (last.op = "crossSection" /\ last.s \in Processes) =>
           /\ last.warned
           /\ last.value = RInt(CrossSectionFrom(cfg, cfg[last.s].datasets, 1))
           /\ last.value = RInt(cfg["s1"].crossSection + cfg["s2"].crossSection)

\* the cross section of P1 was set to 1 while its daughters have 2 each
C17_Witness ==
    /\ last.op = "crossSection" /\ last.s = "P1" /\ last.warned
    /\ cfg["P1"].datasets = << "s1", "s2" >>
    /\ cfg["s1"].crossSection = 2 /\ cfg["s2"].crossSection = 2
    /\ last.value = RInt(4)

\* ----------------------------------------------------- the name registries
Names == {"s1", "s2", ""}

\* the lines of a text file of datasets: a blank line, a comment, and lines
\* of datasets under a name that is held and under a name that is free
DatasetLines ==
    { DatasetLine("", "", 1, 1, <<>>), DatasetLine("#", "s2", 1, 1, << "f1" >>),
      DatasetLine("s", "s1", 2, 1, << "f1", "f2" >>), DatasetLine("n", "n1", 1, 2, << "" >>) }

DatasetFiles ==
    { << line >> : line \in DatasetLines }
        \cup { << DatasetLine("s", "s1", 2, 1, << "f1", "f2" >>), line >> : line \in DatasetLines }

\* an XML element of a dataset with a name and a file and nothing else
ElementNamed(name) ==
    Element(name, NoAttribute, NoNumber, NoNumber, NoWeight, NoNumber, << "f1" >>, <<>>, <<>>,
            <<>>, <<>>)

\* XML elements of datasets, without and with attributes, files and cuts
DatasetElements ==
    { ElementNamed(name) : name \in {"s1", "n2"} }
        \cup { Element("n2", "true", 2, 2, << "w2" >>, 1, << "f1", "missing*" >>,
                       << {"a"} >>, << {"b"} >>, <<>>, <<>>) }

\* XML elements of processes: without attributes and daughters, and with
\* attributes and with datasets and a process for daughters, of which s1 is
\* registered as a dataset
ProcessElements ==
    { Element(name, NoAttribute, NoNumber, NoNumber, NoWeight, NoNumber, <<>>, <<>>, <<>>,
              <<>>, <<>>) : name \in {"P1", "F1"} }
        \cup { Element(name, "false", NoNumber, 2, NoWeight, NoNumber, <<>>, << {"a"} >>, <<>>,
                       << ElementNamed("s1"), ElementNamed("n2") >>,
                       << ElementNamed("P1") >>) : name \in {"P1", "F1"} }

NextReg ==
    \/ \E name \in {"s1", ""} : NewDataset("n1", name, <<>>)
    \/ \E n \in {"s1", "n1"}, name \in Names, identical \in BOOLEAN :
           SetName(n, name, identical)
    \/ SetName("P1", "P2", FALSE)
    \/ \E name \in {"s1", "s2"}, identical \in BOOLEAN : Copy("s1", "n2", name, identical)
    \/ Copy("P1", "F1", "P2", FALSE)
    \/ \E line \in DatasetLines : ~Skipped(line) /\ DatasetFromString("n2", line)
    \/ \E element \in DatasetElements : DatasetFromXML("n2", element)
    \/ \E slots \in { <<>>, << "n1" >>, << "n1", "n2" >> }, lines \in DatasetFiles :
           ReadDatasetsFromTextFile(slots, lines)
    \/ \E slots \in { <<>>, << "n2" >>, << "n1", "n2" >> }, element \in ProcessElements :
           ProcessFromXML("F1", slots, element)

SpecReg == InitPlain /\ [][NextReg]_vars

\* the registry an object registers in
RegistryOf(obj, datasets, processes) == IF obj \in Processes THEN processes ELSE datasets

\* ------------------------------------------------------------------ C16
\* the registrations of an operation before its i-th that registered another
\* object of the same class under the same name
EarlierUnder(registrations, i) ==
    { j \in 1..(i - 1) :
        /\ registrations[j].name = registrations[i].name
        /\ (registrations[j].obj \in Processes) = (registrations[i].obj \in Processes) }

LaterUnder(registrations, i) ==
    { j \in (i + 1)..Len(registrations) :
        /\ registrations[j].name = registrations[i].name
        /\ (registrations[j].obj \in Processes) = (registrations[i].obj \in Processes) }

\* the name of the i-th registration was held by another object when it was
\* made: by the object registered under it last in the same operation, or,
\* if there was none, by an object of the registry before the operation
HeldFor(registrations, i, reg) ==
    LET this    == registrations[i]
        earlier == EarlierUnder(registrations, i)
    IN  IF earlier # {}
        THEN registrations[CHOOSE j \in earlier : \A k \in earlier : k <= j].obj # this.obj
        ELSE this.name \in DOMAIN reg /\ reg[this.name] # this.obj

\* C16: when an object is registered, by its construction (by the
\* constructor, from a string, from an XML element, from a file of lines),
\* by copying or by renaming, under a name the registry holds for another
\* object, nothing is raised, a warning is given and the registry maps the
\* name to the object registered under it last.  Dataset.fromXML and
\* PhysicsProcess.fromXML of an element whose name is held construct and
\* register nothing: they return the holder.
C16_LastWriterWins ==
    [][ /\ \A i \in 1..Len(last'.registrations) :
              LET this == last'.registrations[i]
              IN  HeldFor(last'.registrations, i,
                          RegistryOf(this.obj, DATASETS, PHYSICSPROCESSES)) =>
                      /\ ~last'.raised
                      /\ this.warned
                      /\ LaterUnder(last'.registrations, i) = {} =>
                             RegistryOf(this.obj, DATASETS', PHYSICSPROCESSES')[this.name]
                                 = this.obj
        /\ (last'.op \in {"Dataset.fromXML", "PhysicsProcess.fromXML"} /\ ~last'.registered) =>
              /\ last'.registrations = <<>>
              /\ last'.s \in DOMAIN cfg
              /\ RegistryOf(last'.s, DATASETS, PHYSICSPROCESSES)[last'.name] = last'.s
              /\ UNCHANGED << cfg, DATASETS, PHYSICSPROCESSES >> ]_vars

\* s1 was renamed to the name of s2, and then two datasets were read from a
\* file of two lines with the name s1 had: the second took the name from
\* the first, with a warning
C16_Witness ==
    /\ cfg["s1"].name = "s2" /\ DATASETS["s2"] = "s1" /\ cfg["s2"].name = "s2"
    /\ last.op = "readDatasetsFromTextFile" /\ ~last.raised
    /\ last.registrations = << [obj |-> "n1", name |-> "s1", warned |-> FALSE],
                               [obj |-> "n2", name |-> "s1", warned |-> TRUE] >>
    /\ cfg["n1"].name = "s1" /\ cfg["n2"].name = "s1" /\ DATASETS["s1"] = "n2"

\* ------------------------------------------------- trees kept in memory
\* n.keepTreesInMemory = value
SetKeepTreesInMemory(n, value) ==
    /\ cfg' = [cfg EXCEPT ![n].keepTreesInMemory = value]
    /\ last' = [NoOperation EXCEPT !.op = "keepTreesInMemory", !.s = n]
    /\ UNCHANGED << store, openTrees, treeEntryLists, DATASETS, PHYSICSPROCESSES >>

NextKeep ==
    \/ \E n \in {"s1", "s2"}, value \in BOOLEAN : SetKeepTreesInMemory(n, value)
    \/ \E n \in {"s1", "s2"}, q \in CacheQueries : GetHistogram(n, q)
    \/ \E n \in {"s1", "P1"}, writable \in { {"s1"}, {"s1", "s2"} } : Save(n, writable)

SpecKeep == Init /\ [][NextKeep]_vars

\* ------------------------------------------------------------------ C18
\* C18: with keepTreesInMemory set, a tree that a getHistogram query opened
\* is among the open trees of the dataset after the query, and the same query
\* made again with recreate opens no file.
C18_TreeStaysResident ==
    (last.op = "getHistogram" /\ last.s \in Leaves /\ cfg[last.s].keepTreesInMemory) =>
        /\ last.log.opens > 0 =>
               \A i \in 1..Len(last.log.trees) :
                   last.log.trees[i] \in DOMAIN openTrees[last.s]
        /\ (last.again /\ last.q.recreate) => last.log.opens = 0

\* ------------------------------------------------------ copies of datasets
Preselections == { EmptyCut, {"a"}, {"b"} }

CopyQueries ==
    { Query("x", cut, NoWeight, 1, FALSE, NoVariation, {}, FALSE, FALSE) : cut \in Cuts }

NextCopy ==
    \/ Copy("s1", "c1", "c1", FALSE)
    \/ \E n \in {"s1", "c1"}, cut \in Preselections :
           n \in DOMAIN cfg /\ SetPreselection(n, cut)
    \/ \E n \in {"s1", "c1"}, q \in CopyQueries :
           n \in DOMAIN cfg /\ GetHistogram(n, q)
    \/ \E n \in {"s1", "c1"}, value \in Scales :
           n \in DOMAIN cfg /\ SetCrossSection(n, value)
    \/ \E value \in BOOLEAN : SetKeepTreesInMemory("s1", value)
    \/ \E n \in {"s1", "c1"} : n \in DOMAIN cfg /\ GetValues(n, NoQuery)

SpecCopy == InitPlain /\ [][NextCopy]_vars

\* the environment in which no dataset holds an entry list or an open tree
OnItsOwn ==
    Env(store, [n \in DOMAIN openTrees |-> NoFunction],
        [n \in DOMAIN treeEntryLists |-> NoFunction])

\* ------------------------------------------------------------------ C19
\* C19: a dataset and its copy share no state: the histogram a query on either
\* of them returns is the one the dataset's own attributes give, the entry
\* lists of its preselection built from its own preselection and set on a tree
\* of its own, whatever was done to the other one.
C19_CopySharesNothing ==
    (last.op = "getHistogram" /\ last.s \in {"s1", "c1"} /\ "c1" \in DOMAIN cfg) =>
        last.hist = getHistogram(OnItsOwn, cfg, last.s, last.q).hist

\* ------------------------------------------------- processes from strings
DatasetNames == {"s1", "s2", "zz"}

Lines == { <<>> } \cup { << a >> : a \in DatasetNames }
              \cup { << a, b >> : a \in DatasetNames, b \in DatasetNames }

\* the lines of a text file of processes: a blank line, a comment, and lines
\* of processes with a list of names that has an empty item
ProcessLines ==
    { ProcessLine("", "", 1, <<>>), ProcessLine("/", "F1", 1, << "s1" >>),
      ProcessLine("F", "F1", 2, << "s1", "", "zz" >>), ProcessLine("P", "P1", 1, << "" >>) }

ProcessFiles ==
    { << line >> : line \in ProcessLines }
        \cup { << ProcessLine("F", "F1", 2, << "s1", "", "zz" >>), line >> : line \in ProcessLines }

NextFrom ==
    \/ \E name \in {"F1", "P1"}, kFactor \in Scales, datasetStrings \in Lines :
           FromString("F1", name, kFactor, datasetStrings)
    \/ \E slots \in { <<>>, << "F1" >>, << "F1", "F2" >> }, lines \in ProcessFiles :
           ReadPhysicsProcessesFromFile(slots, lines)
    \/ \E n \in {"s1", "s2"}, name \in DatasetNames : SetName(n, name, FALSE)
    \/ \E q \in YieldQueries : "F1" \in DOMAIN cfg /\ GetYield("F1", q)

SpecFrom == InitPlain /\ [][NextFrom]_vars

\* the names of a line the registry holds, and those it does not hold
KnownNames(datasetStrings) == SelectSeq(datasetStrings, LAMBDA a : a \in DOMAIN DATASETS)
UnknownNames(datasetStrings) == SelectSeq(datasetStrings, LAMBDA a : a \notin DOMAIN DATASETS)

\* ------------------------------------------------------------------ C20
\* C20: the daughters of a process made from a string are the datasets the
\* registry holds under the names of the string, in the order of the string;
\* the names the registry does not hold are reported; the process is not data.
C20_FromStringChildren ==
    last.op = "fromString" =>
        /\ Len(cfg[last.s].datasets) = Len(KnownNames(last.line))
        /\ \A i \in 1..Len(KnownNames(last.line)) :
               cfg[last.s].datasets[i] = DATASETS[KnownNames(last.line)[i]]
        /\ last.errors = UnknownNames(last.line)
        /\ ~cfg[last.s].isData

\* ---------------------------------------------------------------- blinding
\* n.isData = value
SetIsData(n, value) ==
    /\ cfg' = [cfg EXCEPT ![n].isData = value]
    /\ last' = [NoOperation EXCEPT !.op = "isData", !.s = n]
    /\ UNCHANGED << store, openTrees, treeEntryLists, DATASETS, PHYSICSPROCESSES >>

NextBlind ==
    \/ \E n \in {"s1", "d1", "P2"}, q \in CacheQueries : GetHistogram(n, q)
    \/ \E n \in {"P1", "P2"}, value \in BOOLEAN : SetIsData(n, value)

SpecBlind == Init /\ [][NextBlind]_vars

\* the histogram of leaf l for query q before any blinding
Unblinded(l, q) ==
    HistScale(Shaped(q, normalise(cfg[l], l, NominalScan(l, q.xVar, q.cut)), q.xVar),
              OwnFactor(l, q))

\* the histogram of n in which the blinded bins of xVar are emptied in what the
\* real-data leaves contribute, and in nothing else
RECURSIVE BlindedOfData(_, _, _)
RECURSIVE BlindedOfDataFrom(_, _, _, _)
BlindedOfData(n, q, f) ==
    IF n \in Processes
    THEN BlindedOfDataFrom(cfg[n].datasets, 1, q, RMul(f, combinedScaleFactors(cfg[n])))
    ELSE HistScale([i \in 1..Len(Unblinded(n, q)) |->
                       IF cfg[n].isData /\ (i - 1) \in BlindedBins(q.xVar)
                       THEN EmptyBin ELSE Unblinded(n, q)[i]], f)

BlindedOfDataFrom(datasets, i, q, f) ==
    IF i > Len(datasets) THEN NoHist
    ELSE merge(BlindedOfData(datasets[i], q, f), BlindedOfDataFrom(datasets, i + 1, q, f))

\* ------------------------------------------------------------------ C21
\* C21: in the histogram getHistogram returns, created or taken from the
\* store, the blinded bins are emptied in the contribution of every dataset
\* that is real data and kept in the contribution of every simulated dataset,
\* whatever isData says on the processes above it.
C21_BlindingOfDataOnly ==
    last.op = "getHistogram" =>
        last.hist = BlindedOfData(last.s, last.q, ROne)

\* P2 and P1 are marked as data; the histogram of P2 came from the store and
\* its blinded bin holds what the simulated s1 and s2 have there, while d1,
\* which is blinded, has entries in that bin
C21_Witness ==
    /\ last.op = "getHistogram" /\ last.s = "P2" /\ last.log.scans = 0 /\ last.log.gets = 3
    /\ cfg["P2"].isData /\ cfg["P1"].isData /\ ~cfg["s1"].isData /\ cfg["d1"].isData
    /\ last.hist[3].content # RZero
    /\ Unblinded("d1", last.q)[3].content # RZero
    /\ last.hist[3] = HistScale(HistAdd(Unblinded("s1", last.q), Unblinded("s2", last.q)),
                                combinedScaleFactors(cfg["P1"]))[3]

\* ---------------------------------------------------------------- cut flows
CutLists == { << {"b"} >>, << {"a"}, {"b"} >> }

\* the variation asked for and the systematics handed to the query
FlowSystematics == { << NoVariation, {} >>, << "scaleUp", {"scaleSys"} >> }

\* the luminosity handed to a cut flow: one, or none (the default)
FlowLuminosities == { MaxLumi, NoLuminosity }

FlowQueries ==
    { Query("yield", EmptyCut, NoWeight, lumi, recreate, sys[1], sys[2], FALSE, FALSE) :
        lumi \in FlowLuminosities, recreate \in BOOLEAN, sys \in FlowSystematics }

NextFlow ==
    \/ \E n \in {"s1", "d1"}, cuts \in CutLists, q \in FlowQueries, accumulateCuts \in BOOLEAN :
           GetCutFlowYields(n, cuts, q, accumulateCuts)
    \/ \E cuts \in CutLists, q \in FlowQueries, accumulateCuts \in BOOLEAN :
           ~q.recreate /\ GetCutflowHistogram("s1", cuts, q, accumulateCuts)
    \/ \E datasets \in { << "d1" >>, << "d1", "s1" >> }, cuts \in CutLists,
          luminosity \in FlowLuminosities :
           CreateCutflowPlot(datasets, cuts, luminosity)

SpecFlow == Init /\ [][NextFlow]_vars

\* the conjunction of the first i cuts of a list
RECURSIVE Conjunction(_, _)
Conjunction(cuts, i) == IF i = 0 THEN EmptyCut ELSE Conjunction(cuts, i - 1) \cup cuts[i]

\* the cut the i-th entry of the last cut flow stands for
FlowCut(i) == IF last.accumulateCuts THEN Conjunction(last.cuts, i) ELSE last.cuts[i]

\* ------------------------------------------------------------------ C22
\* C22 (as claimed): getCutFlowYields over a list of distinct cuts returns a
\* mapping with one entry per cut of the list; the entry of the i-th cut is
\* the yield and the uncertainty of the conjunction of the first i cuts if
\* the cuts are accumulated, of the i-th cut alone if not: what getYield
\* returns for that cut with the same luminosity, variation and systematics.
C22_CutFlowYields ==
    last.op = "getCutFlowYields" =>
        /\ ~last.raised
        /\ DOMAIN last.result = { last.cuts[i] : i \in 1..Len(last.cuts) }
        /\ \A i \in 1..Len(last.cuts) :
               LET r == getYield(Now, cfg, last.s,
                                 [last.q EXCEPT !.cut = FlowCut(i), !.recreate = FALSE])
               IN  ~r.raised /\ last.result[last.cuts[i]] = YieldOf(r)

\* ------------------------------------------------------------------ C29
\* C29 (as claimed): getCutFlowYields without a luminosity on a simulated
\* dataset raises nothing and returns a yield for every cut, the yield to
\* which no luminosity is applied.
C29_NoLuminosityCompletes ==
    (last.op = "getCutFlowYields" /\ last.q.luminosity = NoLuminosity /\ ~cfg[last.s].isData) =>
        /\ ~last.raised
        /\ DOMAIN last.result = { last.cuts[i] : i \in 1..Len(last.cuts) }
        /\ \A i \in 1..Len(last.cuts) :
               last.result[last.cuts[i]].value =
                   Total(LeafReference(last.s, yieldQuery([last.q EXCEPT !.cut = FlowCut(i),
                                                                        !.luminosity = 1])))

\* ---------------------------------------------------- real data and scales
DataQueries ==
    { Query("x", EmptyCut, NoWeight, lumi, recreate, variation, {}, FALSE, FALSE) :
        lumi \in Luminosities, recreate \in BOOLEAN, variation \in { NoVariation, "scaleUp" } }

NextData ==
    \/ \E q \in DataQueries : GetHistogram("d1", q)
    \/ \E value \in Scales : SetKFactor("d1", value)
    \/ \E value \in Scales : SetCrossSection("d1", value)
    \/ \E value \in { {}, {"scaleSys"} } : SetSystematicsSet("d1", value)

SpecData == Init /\ [][NextData]_vars

\* ------------------------------------------------------------------ C23
\* C23 (as claimed): the histogram of a dataset that is real data is its scan,
\* blinded, to which no scale factor is applied: neither the factors in
\* scaleFactors nor the scale factor of the systematics.
C23_DataUnscaled ==
    (last.op = "getHistogram" /\ last.s \in Leaves /\ cfg[last.s].isData) =>
        last.hist = applyBlinding(last.q.xVar, last.q.cut,
                                  NominalScan(last.s, last.q.xVar, last.q.cut))

\* ------------------------------------------- systematics of a process in 2D
ProcessSets == { {}, {"weightSys"}, {"scaleSys"} }

Queries2D ==
    { Query("x", EmptyCut, NoWeight, 1, FALSE, variation, extra, FALSE, FALSE) :
        variation \in { NoVariation, "weightUp", "scaleUp" }, extra \in { {}, {"weightSys"} } }

NextProc2D ==
    \/ \E p \in {"P1", "P2"}, q \in Queries2D : GetHistogram2D(p, q)
    \/ \E p \in {"P1", "P2"}, q \in Queries2D : GetHistogram(p, q)
    \/ \E p \in {"P1", "P2"}, value \in ProcessSets : SetSystematicsSet(p, value)
    \/ \E n \in {"P2", "d1"} : AddSystematicsToAllDaughters(n, "weightSys")
    \/ \E n \in {"P2", "d1"} : RemoveSystematicsFromAllDaughters(n, "weightSys")

SpecProc2D == InitPlain /\ [][NextProc2D]_vars

\* ------------------------------------------------------------------ C24
\* C24 (as claimed): every dataset below a process asked for a 2D histogram
\* works with a systematics set that holds the systematics of the process and
\* those handed to the query, as it does for getHistogram.
C24_SetThreadedIn2D ==
    (last.op \in {"getHistogram", "getHistogram2D"} /\ last.s \in Processes) =>
        /\ Len(last.log.sets) > 0
        /\ \A i \in 1..Len(last.log.sets) :
               (cfg[last.s].systematicsSet \cup last.q.systematicsSet) \subseteq last.log.sets[i]

\* ------------------------------------------------------------ content hash
\* n.fileNames.append( fileName ): the list object is changed in place
AppendFile(n, fileName) ==
    /\ Len(cfg[n].fileList) < MaxFiles
    /\ cfg' = [cfg EXCEPT ![n].fileList = Append(@, fileName),
                          ![n].nFiles = @ + Len(findAllFilesInPath(fileName))]
    /\ last' = [NoOperation EXCEPT !.op = "append", !.s = n]
    /\ UNCHANGED << store, openTrees, treeEntryLists, DATASETS, PHYSICSPROCESSES >>

\* n.fileNames = value: the attribute refers to another list object
SetFileNames(n, value) ==
    /\ cfg' = [m \in DOMAIN cfg |->
                  [ [cfg[m] EXCEPT !.hashFileNames =
                         IF @ = ListOf(n) THEN OtherList(cfg[n].fileList) ELSE @]
                    EXCEPT !.fileList = IF m = n THEN value ELSE @,
                           !.nFiles = IF m = n THEN Len(FilesOf(value)) ELSE @ ]]
    /\ last' = [NoOperation EXCEPT !.op = "fileNames", !.s = n]
    /\ UNCHANGED << store, openTrees, treeEntryLists, DATASETS, PHYSICSPROCESSES >>

RECURSIVE readMd5(_, _, _)
RECURSIVE readMd5From(_, _, _, _)

\* Dataset.md5 (getter): the hash is calculated if need be, which opens the
\* nominal tree (its debug message reads the sum of weights, line 400) and
\* reads the sum of weights for the digest (line 367)
Dataset_md5(e, cfgs, s) ==
    LET o == open(e, cfgs[s], s, NoTree)
        c == calculateHash(cfgs, s)
    IN  [e |-> IF hashIsCurrent(cfgs, cfgs[s]) THEN e
               ELSE [o.e EXCEPT !.log.calcs = @ + Calculations(cfgs[s], 1)],
         cfgs |-> [cfgs EXCEPT ![s] = c], md5 |-> md5(c), raised |-> FALSE]

\* PhysicsProcess.md5 (getter), lines 1157-1161: the md5 of every daughter is
\* read in order, then md5.hashdigest() raises AttributeError, for an md5
\* object has no such method
PhysicsProcess_md5(e, cfgs, p) ==
    [readMd5From(e, cfgs, cfgs[p].datasets, 1) EXCEPT !.md5 = NoHash, !.raised = TRUE]

readMd5From(e, cfgs, datasets, i) ==
    IF i > Len(datasets) THEN [e |-> e, cfgs |-> cfgs, md5 |-> NoHash, raised |-> FALSE]
    ELSE LET r == readMd5(e, cfgs, datasets[i])
         IN  IF r.raised THEN r ELSE readMd5From(r.e, r.cfgs, datasets, i + 1)

\* md5 of a dataset or of a process
readMd5(e, cfgs, n) ==
    IF n \in Processes THEN PhysicsProcess_md5(e, cfgs, n) ELSE Dataset_md5(e, cfgs, n)

\* n.md5
ReadMd5(n) ==
    \E r \in { readMd5(Now, cfg, n) } :
        /\ Took(r.e)
        /\ cfg' = r.cfgs
        /\ last' = [NoOperation EXCEPT !.op = "md5", !.s = n, !.md5 = r.md5,
                        !.raised = r.raised, !.log = r.e.log]

FileLists == { << "s1" >>, << "s1", "f2" >>, << "f2" >> }

NextHash ==
    \/ \E fileName \in {"f2", "f3", "missing*"} : AppendFile("s1", fileName)
    \/ \E value \in FileLists : SetFileNames("s1", value)
    \/ \E n \in {"s1", "P1"} : ReadMd5(n)
    \/ \E value \in {0, 2} : SetSumOfWeights("s1", value)
    \/ \E expression \in { << "w" >>, << "w2" >> } : SetWeightExpression("s1", expression)

SpecHash == InitPlain /\ [][NextHash]_vars

\* ------------------------------------------------------------------ C25
\* C25 (as claimed): the md5 read from a dataset is the digest of the files
\* its list of file names holds when it is read.
C25_HashFollowsFileNames ==
    last.op = "md5" =>
        last.md5.files = FilesOf(cfg[last.s].fileList)

\* ------------------------------------------------------------ C26, C27
\* C26 (as claimed): every name in the registry of datasets refers to a
\* dataset, not a process, that has this name now; every name in the registry
\* of processes refers to a process that has this name now.
C26_RegistryKeysAreNames ==
    /\ \A k \in DOMAIN DATASETS :
           /\ DATASETS[k] \in DOMAIN cfg \ Processes
           /\ cfg[DATASETS[k]].name = k
    /\ \A k \in DOMAIN PHYSICSPROCESSES :
           /\ PHYSICSPROCESSES[k] \in DOMAIN cfg \cap Processes
           /\ cfg[PHYSICSPROCESSES[k]].name = k

\* C27 (as claimed): a dataset whose name no other dataset has is registered
\* under its name.
C27_UniqueNameIsRegistered ==
    \A n \in DOMAIN cfg \ Processes :
        (\A m \in DOMAIN cfg \ (Processes \cup {n}) : cfg[m].name # cfg[n].name) =>
            /\ cfg[n].name \in DOMAIN DATASETS
            /\ DATASETS[cfg[n].name] = n

\* ------------------------------------------- the store and what it is keyed by
CoherenceQueries ==
    { Query("x", cut, weight, 1, FALSE, NoVariation, {}, FALSE, FALSE) :
        cut \in Cuts, weight \in { NoWeight, << "w2" >> } }

NextCoh ==
    \/ \E q \in CoherenceQueries : GetHistogram("s1", q)
    \/ \E n \in {"s1", "P1"}, cut \in { EmptyCut, {"b"} } : SetPreselection(n, cut)
    \/ \E expression \in { << "w" >>, << "w2" >> } : SetWeightExpression("P1", expression)

SpecCoh == InitStore /\ [][NextCoh]_vars

\* ------------------------------------------------------------------ C28
\* C28 (as claimed): a histogram getHistogram takes from the store is the
\* histogram it would create from the tree now, with the preselection the
\* dataset has and the weight expression of the query.
C28_HitEqualsFreshScan ==
    (last.op = "getHistogram" /\ last.log.gets = 1 /\ last.log.scans = 0) =>
        last.hist = Dataset_getHistogram(Now, cfg[last.s], last.s,
                                         [last.q EXCEPT !.recreate = TRUE]).hist

\* ------------------------------------- values and yield of the same query
ValueQueries ==
    { Query("x", cut, NoWeight, lumi, FALSE, NoVariation, {}, FALSE, FALSE) :
        cut \in Cuts, lumi \in Luminosities }

NextVal ==
    \/ \E n \in {"s1", "s2", "d1"}, q \in ValueQueries : GetValues(n, q)
    \/ \E n \in {"s1", "s2", "d1"}, q \in ValueQueries : GetYield(n, q)
    \/ \E value \in 1..MaxScale : SetKFactor("s1", value)
    \/ \E value \in 1..MaxScale : SetCrossSection("s1", value)

SpecVal == InitPlain /\ [][NextVal]_vars

\* the sum of the weights of the values
RECURSIVE WeightSum(_, _)
WeightSum(values, n) ==
    IF n = 0 THEN RZero ELSE RAdd(WeightSum(values, n - 1), values[n].weight)

\* ------------------------------------------------------------------ C30
\* C30 (as claimed): for a simulated dataset with a sum of weights that is
\* not zero, the weights getValues returns add up to the yield getYield
\* returns for the same cut, variation, luminosity and systematics.
C30_ValuesAddUpToYield ==
    (/\ last.op = "getValues"
     /\ last.s \in Leaves
     /\ ~cfg[last.s].isData
     /\ sumOfWeights(cfg[last.s], last.s) # 0) =>
        WeightSum(last.values, Len(last.values)) = getYield(Now, cfg, last.s, last.q).value

====
